---- MODULE Spec2Model ----
(***************************************************************************)
(* The financial analysis service: the transaction extraction, the         *)
(* categorization, the metrics, the validation, the agent workflow and the *)
(* analysis endpoint.                                                      *)
(*                                                                         *)
(* Text is a sequence of one-character strings, so that the regular        *)
(* expressions of the extractor and the substring tests of the categorizer *)
(* are computed character by character.  Amounts are integers counted in   *)
(* cents; the texts of the model carry at most two fractional digits, for  *)
(* which float() is exact to the cent.  Percentages are counted in         *)
(* hundredths of a percent (round(x, 2) of a percentage).                  *)
(***************************************************************************)
EXTENDS Integers, Sequences, FiniteSets, TLC

VARIABLES entry, pc, text, tables, clock, raised, transactions, categorized,
          monthly_income, metrics, subscriptions, submitted, financial_state,
          validation, debt_accounts, log, failure, use_parallel, active,
          finished, document, response, runs, frames

\* The state of the graph run: the graph chosen, the nodes of the current step
\* that have not run yet and those that have
graph_vars == <<use_parallel, active, finished>>

\* The request of the endpoint and its response
endpoint_vars == <<document, response>>

\* The runs that share one service, and the stack frames of their calls
concurrent_vars == <<runs, frames>>

vars == <<entry, pc, text, tables, clock, raised, transactions, categorized,
          monthly_income, metrics, subscriptions, submitted, financial_state,
          validation, debt_accounts, log, failure, graph_vars, endpoint_vars,
          concurrent_vars>>

----------------------------------------------------------------------------
(* Characters and the string methods the code uses.                        *)

DigitSeq == <<"0","1","2","3","4","5","6","7","8","9">>
Digits == {DigitSeq[i] : i \in 1..Len(DigitSeq)}
DigitOrComma == Digits \cup {","}
DigitCommaDot == Digits \cup {",", "."}
Whitespace == {" ", "\t", "\n"}
UpperSeq == <<"A","B","C","D","E","F","G","H","I","J","K","L","M","N","O","P","Q","R","S","T","U","V","W","X","Y","Z">>
LowerSeq == <<"a","b","c","d","e","f","g","h","i","j","k","l","m","n","o","p","q","r","s","t","u","v","w","x","y","z">>
Uppers == {UpperSeq[i] : i \in 1..Len(UpperSeq)}
Letters == Uppers \cup {LowerSeq[i] : i \in 1..Len(LowerSeq)}

\* Python's None, for a table cell and for a missing argument: a value that is
\* no string of characters.
None == <<"None">>

DigitVal(c) == (CHOOSE i \in 1..Len(DigitSeq) : DigitSeq[i] = c) - 1

LowerChar(c) ==
    IF c \in Uppers THEN LowerSeq[CHOOSE i \in 1..Len(UpperSeq) : UpperSeq[i] = c] ELSE c

\* str.lower()
lower(s) == [i \in 1..Len(s) |-> LowerChar(s[i])]

\* The last index of the longest run of characters of class C that starts at i
\* (i - 1 when s[i] is not in C).
RunEnd(s, i, C) ==
    IF i > Len(s) THEN i - 1
    ELSE CHOOSE j \in (i - 1)..Len(s) :
            /\ \A k \in i..j : s[k] \in C
            /\ j = Len(s) \/ s[j + 1] \notin C

\* The first index of the longest run of characters of class C that ends at i.
RunStart(s, i, C) ==
    IF i < 1 THEN i + 1
    ELSE CHOOSE j \in 1..(i + 1) :
            /\ \A k \in j..i : s[k] \in C
            /\ j = 1 \/ s[j - 1] \notin C

\* str.strip(chars)
StripChars(s, C) ==
    LET a == RunEnd(s, 1, C) + 1
    IN  IF a > Len(s) THEN <<>> ELSE SubSeq(s, a, RunStart(s, Len(s), C) - 1)

\* str.strip()
strip(s) == StripChars(s, Whitespace)

\* needle in s
Contains(s, needle) ==
    \E i \in 1..(Len(s) - Len(needle) + 1) : SubSeq(s, i, i + Len(needle) - 1) = needle

\* any(k in s for k in keywords): keywords is a sequence of strings
ContainsAny(s, keywords) == \E k \in 1..Len(keywords) : Contains(s, keywords[k])

\* str.isdigit()
isdigit(s) == s # <<>> /\ \A i \in 1..Len(s) : s[i] \in Digits

\* The lines of s from index start on, a line ending at each line break
SplitFrom(s, start) ==
    LET breaks == {i \in start..Len(s) : s[i] = "\n"}
        n == Cardinality(breaks)
        Break(k) == IF k = 0 THEN start - 1
                    ELSE IF k = n + 1 THEN Len(s) + 1
                    ELSE CHOOSE b \in breaks : Cardinality({c \in breaks : c < b}) = k - 1
    IN  [k \in 1..(n + 1) |-> SubSeq(s, Break(k - 1) + 1, Break(k) - 1)]

\* str.splitlines(): no line for the empty rest after a final line break
splitlines(s) ==
    LET parts == SplitFrom(s, 1)
    IN  IF parts[Len(parts)] = <<>> THEN SubSeq(parts, 1, Len(parts) - 1) ELSE parts

RECURSIVE SplitWideFrom(_, _, _)
\* The pieces of s from index start on, the scan being at i: the next run of two
\* whitespace characters or more ends a piece
SplitWideFrom(s, i, start) ==
    LET gaps == {j \in i..(Len(s) - 1) : s[j] \in Whitespace /\ s[j + 1] \in Whitespace}
    IN  IF gaps = {} THEN <<SubSeq(s, start, Len(s))>>
        ELSE LET g == CHOOSE j \in gaps : \A k \in gaps : j <= k
                 e == RunEnd(s, g, Whitespace)
             IN  <<SubSeq(s, start, g - 1)>> \o SplitWideFrom(s, e + 1, e + 1)

\* re.split(r'\s{2,}', s)
SplitWide(s) == SplitWideFrom(s, 1, 1)

RECURSIVE NatToChars(_)
\* str(n) of a natural number
NatToChars(n) ==
    IF n < 10 THEN <<DigitSeq[n + 1]>> ELSE NatToChars(n \div 10) \o <<DigitSeq[(n % 10) + 1]>>

RECURSIVE DigitsToNat(_)
DigitsToNat(s) ==
    IF s = <<>> THEN 0 ELSE 10 * DigitsToNat(SubSeq(s, 1, Len(s) - 1)) + DigitVal(s[Len(s)])

\* s.replace(',', '')
RemoveCommas(s) == SelectSeq(s, LAMBDA c : c # ",")

\* float(s) of a string of digits with at most one '.', in cents: ValueError
\* (ok = FALSE) when it holds no digit at all.
float(s) ==
    LET dots == {i \in 1..Len(s) : s[i] = "."}
        dot == IF dots = {} THEN Len(s) + 1 ELSE CHOOSE i \in dots : TRUE
        whole == SubSeq(s, 1, dot - 1)
        frac == SubSeq(s, dot + 1, Len(s))
        cents == SubSeq(frac \o <<"0", "0">>, 1, 2)
    IN  IF whole = <<>> /\ frac = <<>>
        THEN [ok |-> FALSE, value |-> 0]
        ELSE [ok |-> TRUE, value |-> 100 * DigitsToNat(whole) + DigitsToNat(cents)]

\* The end of a match of [\d,]+\.?\d* that starts at i (s[i] is a digit or a comma).
MoneyEnd(s, i) ==
    LET j == RunEnd(s, i, DigitOrComma)
    IN  IF j + 1 <= Len(s) /\ s[j + 1] = "." THEN RunEnd(s, j + 2, Digits) ELSE j

RECURSIVE FindAllMoney(_, _)
\* re.findall(r'\$?([\d,]+\.?\d*)', s), scanning from i
\* The group of the next match starts at the next digit or comma, with or
\* without a '$' before it
FindAllMoney(s, i) ==
    LET starts == {j \in i..Len(s) : s[j] \in DigitOrComma}
    IN  IF starts = {} THEN <<>>
        ELSE LET start == CHOOSE j \in starts : \A k \in starts : j <= k
             IN  <<SubSeq(s, start, MoneyEnd(s, start))>>
                     \o FindAllMoney(s, MoneyEnd(s, start) + 1)

RECURSIVE FindAllDollar(_, _)
\* re.findall(r'\$\s*([\d,]+\.?\d*)', s), scanning from i
\* The next match starts at the next '$' that whitespace and then a digit or a
\* comma follow
FindAllDollar(s, i) ==
    LET GroupStart(j) == RunEnd(s, j + 1, Whitespace) + 1
        signs == {j \in i..Len(s) :
                     /\ s[j] = "$"
                     /\ GroupStart(j) <= Len(s)
                     /\ s[GroupStart(j)] \in DigitOrComma}
    IN  IF signs = {} THEN <<>>
        ELSE LET start == GroupStart(CHOOSE j \in signs : \A k \in signs : j <= k)
             IN  <<SubSeq(s, start, MoneyEnd(s, start))>>
                     \o FindAllDollar(s, MoneyEnd(s, start) + 1)

RECURSIVE StripDollarAmounts(_, _)
\* re.sub(r'\$[\d,.]+', '', s), scanning from i
\* The text up to the next '$' that a digit, a comma or a dot follows is kept
StripDollarAmounts(s, i) ==
    LET signs == {j \in i..(Len(s) - 1) : s[j] = "$" /\ s[j + 1] \in DigitCommaDot}
    IN  IF signs = {} THEN SubSeq(s, i, Len(s))
        ELSE LET sign == CHOOSE j \in signs : \A k \in signs : j <= k
             IN  SubSeq(s, i, sign - 1)
                     \o StripDollarAmounts(s, RunEnd(s, sign + 1, DigitCommaDot) + 1)

\* s[:n]
Truncate(s, n) == IF Len(s) > n THEN SubSeq(s, 1, n) ELSE s

RECURSIVE JoinFrom(_, _, _, _)
\* parts[lo], ..., parts[hi] with sep between them, joined by halves
JoinFrom(sep, parts, lo, hi) ==
    IF lo = hi THEN parts[lo]
    ELSE JoinFrom(sep, parts, lo, (lo + hi) \div 2) \o sep
             \o JoinFrom(sep, parts, (lo + hi) \div 2 + 1, hi)

\* sep.join(parts)
join(sep, parts) ==
    IF parts = <<>> THEN <<>> ELSE JoinFrom(sep, parts, 1, Len(parts))

----------------------------------------------------------------------------
(* AnalysisService: the transaction extractor.                             *)

\* datetime.now() of the k-th transaction built in one call: the clk of the
\* run either stands still between two calls (step 0) or advances (step 1).
Stamp(clk, k) == [day |-> clk.day, tick |-> k * clk.step]

\* The transactions of a list of (description, amount) pairs, each dated now.
Dated(pairs, clk) ==
    [k \in 1..Len(pairs) |->
        [date |-> Stamp(clk, k), description |-> pairs[k].description,
         amount |-> pairs[k].amount]]

RECURSIVE FlattenFrom(_, _, _)
\* seqs[lo] \o ... \o seqs[hi], by halves
FlattenFrom(seqs, lo, hi) ==
    IF lo > hi THEN <<>>
    ELSE IF lo = hi THEN seqs[lo]
    ELSE FlattenFrom(seqs, lo, (lo + hi) \div 2)
             \o FlattenFrom(seqs, (lo + hi) \div 2 + 1, hi)

Flatten(seqs) == FlattenFrom(seqs, 1, Len(seqs))

\* [f(x) for x in s if keep(x)] over the indices of s
Indices(n, keep(_)) == SelectSeq([j \in 1..n |-> j], keep)

\* bool(cell) of a table cell: neither None nor the empty string
Truthy(cell) == cell # None /\ cell # <<>>

\* _extract_amount with the ValueError of float() let through
extract_amount_uncaught(cell) ==
    IF ~Truthy(cell) THEN [kind |-> "None", value |-> 0]
    ELSE LET c == strip(cell)
             hits == {i \in 1..Len(c) : c[i] \in DigitOrComma}
         IN  IF hits = {} THEN [kind |-> "None", value |-> 0]
             ELSE LET p == CHOOSE i \in hits : \A h \in hits : i <= h
                      f == float(RemoveCommas(SubSeq(c, p, MoneyEnd(c, p))))
                  IN  IF f.ok THEN [kind |-> "value", value |-> f.value]
                      ELSE [kind |-> "ValueError", value |-> 0]

\* _extract_amount: re.search(r'\$?\s*([\d,]+\.?\d*)', cell), the group starts at
\* the first digit or comma of the cell; ValueError is caught and gives None
extract_amount(cell) ==
    IF ~Truthy(cell) THEN [kind |-> "None", value |-> 0]
    ELSE LET c == strip(cell)
             hits == {i \in 1..Len(c) : c[i] \in DigitOrComma}
         IN  IF hits = {} THEN [kind |-> "None", value |-> 0]
             ELSE LET p == CHOOSE i \in hits : \A h \in hits : i <= h
                      f == float(RemoveCommas(SubSeq(c, p, MoneyEnd(c, p))))
                  IN  IF f.ok THEN [kind |-> "value", value |-> f.value]
                      ELSE [kind |-> "None", value |-> 0]

TableSkipWords == <<<<"t","o","t","a","l">>, <<"m","o","n","t","h">>, <<"a","v","e","r","a","g","e">>, <<"h","e","a","d","e","r">>>>

\* One data row of a table: the outcome of _extract_amount for every cell after
\* the first, and the (description, amount) pairs of the positive amounts.
RowCells(row) == [i \in 1..Len(row) |-> IF Truthy(row[i]) THEN strip(row[i]) ELSE <<>>]

RowSkipped(row) ==
    \/ row = <<>>
    \/ \A i \in 1..Len(row) : row[i] = None \/ strip(row[i]) = <<>>
    \/ ContainsAny(lower(join(<<" ">>, RowCells(row))), TableSkipWords)

RowAmounts(row) == [i \in 1..Len(row) |-> extract_amount(RowCells(row)[i])]

\* RowPairs with the cells of amount zero kept
RowPairs_zero_kept(header, row) ==
    LET cells == RowCells(row)
        label == cells[1]
        amounts == RowAmounts(row)
        cols == Indices(Len(cells),
                    LAMBDA i : i >= 2 /\ amounts[i].kind = "value" /\ amounts[i].value >= 0)
        hint(i) == IF i <= Len(header) THEN header[i] ELSE <<>>
    IN  [k \in 1..Len(cols) |->
            [description |-> IF hint(cols[k]) # <<>>
                             THEN StripChars(label \o <<" ","-"," ">> \o hint(cols[k]), {" ", "-"})
                             ELSE label,
             amount |-> -amounts[cols[k]].value]]

RowPairs(header, row) ==
    LET cells == RowCells(row)
        label == cells[1]
        amounts == RowAmounts(row)
        cols == Indices(Len(cells),
                    LAMBDA i : i >= 2 /\ amounts[i].kind = "value" /\ amounts[i].value > 0)
        hint(i) == IF i <= Len(header) THEN header[i] ELSE <<>>
    IN  [k \in 1..Len(cols) |->
            [description |-> IF hint(cols[k]) # <<>>
                             THEN StripChars(label \o <<" ","-"," ">> \o hint(cols[k]), {" ", "-"})
                             ELSE label,
             amount |-> -amounts[cols[k]].value]]

RowRaises(row) == \E i \in 2..Len(row) : RowAmounts(row)[i].kind = "ValueError"

TableUsed(table) == table # None /\ Len(table) >= 2

TableHeader(table) ==
    [i \in 1..Len(table[1]) |->
        IF Truthy(table[1][i]) THEN lower(strip(table[1][i])) ELSE <<>>]

TableRows(table) == SelectSeq(Tail(table), LAMBDA row : ~RowSkipped(row))

\* _parse_from_tables: exc when a call of _extract_amount raised
parse_from_tables(tbls, clk) ==
    LET used == SelectSeq(tbls, TableUsed)
        pairs == Flatten([t \in 1..Len(used) |->
                    Flatten([r \in 1..Len(TableRows(used[t])) |->
                        RowPairs(TableHeader(used[t]), TableRows(used[t])[r])])])
        exc == \E t \in 1..Len(used) : \E r \in 1..Len(TableRows(used[t])) :
                    RowRaises(TableRows(used[t])[r])
    IN  [exc |-> exc, txns |-> IF exc THEN <<>> ELSE Dated(pairs, clk)]

HeaderWords == <<<<"h","o","u","s","i","n","g">>, <<"r","e","n","t">>, <<"f","o","o","d">>, <<"b","i","l","l">>, <<"p","e","r","s","o","n","a","l">>, <<"t","r","a","n","s","p","o","r","t">>,
                 <<"e","n","t","e","r","t","a","i","n">>, <<"u","t","i","l","i","t">>, <<"d","i","n","i","n","g">>, <<"g","r","o","c","e","r">>>>

\* The category names of a header line
HeaderCategories(line) ==
    LET parts == SplitWide(line)
        kept == Indices(Len(parts),
                    LAMBDA i : strip(parts[i]) # <<>> /\ ~isdigit(strip(parts[i])))
    IN  [k \in 1..Len(kept) |-> strip(parts[kept[k]])]

\* re.match(r'^([A-Za-z]+)', line), "Entry" when the line starts with no letter
LineLabel(line) ==
    IF line # <<>> /\ line[1] \in Letters THEN SubSeq(line, 1, RunEnd(line, 1, Letters))
    ELSE <<"E","n","t","r","y">>

\* The (description, amount) pairs of one line that is no header line
TabularLinePairs(line, categories) ==
    LET amounts == FindAllMoney(line, 1)
        value(j) == float(RemoveCommas(amounts[j]))
        kept == Indices(Len(amounts), LAMBDA j : value(j).ok /\ value(j).value > 0)
        cat(j) == IF j <= Len(categories) THEN categories[j]
                  ELSE <<"C","a","t","e","g","o","r","y"," ">> \o NatToChars(j)
    IN  IF Len(amounts) >= 2
        THEN [k \in 1..Len(kept) |->
                [description |-> LineLabel(line) \o <<" ","-"," ">> \o cat(kept[k]),
                 amount |-> -value(kept[k]).value]]
        ELSE <<>>

\* The loop of _parse_tabular_text from line i on: an empty line is skipped, a
\* header line sets the categories of the lines after it, any other line gives
\* its pairs under the categories of the last header before it
TabularFrom(lines, i, categories) ==
    LET IsHeader(k) == /\ strip(lines[k]) # <<>>
                       /\ ContainsAny(lower(strip(lines[k])), HeaderWords)
        CategoriesAt(k) ==
            LET headers == {h \in i..(k - 1) : IsHeader(h)}
            IN  IF headers = {} THEN categories
                ELSE HeaderCategories(
                         strip(lines[CHOOSE h \in headers : \A g \in headers : g <= h]))
    IN  Flatten([j \in 1..(Len(lines) + 1 - i) |->
            IF strip(lines[i + j - 1]) = <<>> \/ IsHeader(i + j - 1) THEN <<>>
            ELSE TabularLinePairs(strip(lines[i + j - 1]), CategoriesAt(i + j - 1))])

\* _parse_tabular_text
parse_tabular_text(txt, clk) == Dated(TabularFrom(splitlines(txt), 1, <<>>), clk)

DollarSkipWords == <<<<"t","o","t","a","l">>, <<"m","o","n","t","h">>, <<"c","a","t","e","g","o","r","y">>, <<"h","e","a","d","e","r">>, <<"p","a","g","e">>>>

DescriptionLimit == 60

DollarLinePairs(line) ==
    LET amounts == FindAllDollar(line, 1)
        value(j) == float(RemoveCommas(amounts[j]))
        kept == Indices(Len(amounts), LAMBDA j : value(j).ok /\ value(j).value > 0)
        rest == Truncate(strip(StripDollarAmounts(line, 1)), DescriptionLimit)
    IN  [k \in 1..Len(kept) |->
            [description |-> IF rest = <<>> THEN <<"E","x","p","e","n","s","e">> ELSE rest,
             amount |-> -value(kept[k]).value]]

\* The loop of _parse_dollar_amounts from line i on
DollarFrom(lines, i) ==
    Flatten([j \in 1..(Len(lines) + 1 - i) |->
        IF \/ strip(lines[i + j - 1]) = <<>>
           \/ ContainsAny(lower(strip(lines[i + j - 1])), DollarSkipWords)
        THEN <<>>
        ELSE DollarLinePairs(strip(lines[i + j - 1]))])

\* _parse_dollar_amounts
parse_dollar_amounts(txt, clk) == Dated(DollarFrom(splitlines(txt), 1), clk)

SentinelDescription == <<"M","o","n","t","h","l","y"," ","E","x","p","e","n","s","e","s"," ","(","f","r","o","m"," ","s","t","a","t","e","m","e","n","t",")">>
SentinelAmount == -100000

\* The summary entry returned when no strategy finds a transaction
Fallback(clk) ==
    <<[date |-> Stamp(clk, 1), description |-> SentinelDescription,
       amount |-> SentinelAmount]>>

\* The table strategy is tried only for a list of tables that is not empty
FromTables(tbls, clk) ==
    IF tbls # <<>> THEN parse_from_tables(tbls, clk) ELSE [exc |-> FALSE, txns |-> <<>>]

Returned(txns) == [exc |-> FALSE, txns |-> txns]

\* _parse_transactions with the results of the strategies merged
parse_transactions_merged(txt, tbls, clk) ==
    LET fromTables == FromTables(tbls, clk)
        all == fromTables.txns \o parse_tabular_text(txt, clk)
                   \o parse_dollar_amounts(txt, clk)
    IN  IF fromTables.exc THEN fromTables
        ELSE IF all # <<>> THEN Returned(all) ELSE Returned(Fallback(clk))

\* _parse_transactions without the summary entry of the last resort
parse_transactions_no_fallback(txt, tbls, clk) ==
    LET fromTables == FromTables(tbls, clk)
        tabular == parse_tabular_text(txt, clk)
    IN  IF fromTables.exc \/ fromTables.txns # <<>> THEN fromTables
        ELSE IF tabular # <<>> THEN Returned(tabular)
        ELSE Returned(parse_dollar_amounts(txt, clk))

\* _parse_transactions: the first strategy with a result wins
parse_transactions(txt, tbls, clk) ==
    LET fromTables == FromTables(tbls, clk)
        tabular == parse_tabular_text(txt, clk)
        dollars == parse_dollar_amounts(txt, clk)
    IN  IF fromTables.exc \/ fromTables.txns # <<>> THEN fromTables
        ELSE IF tabular # <<>> THEN Returned(tabular)
        ELSE IF dollars # <<>> THEN Returned(dollars)
        ELSE Returned(Fallback(clk))

----------------------------------------------------------------------------
(* TransactionCategorizer                                                  *)

\* TransactionCategorizer.CATEGORIES, in declaration order
CATEGORIES == <<
    [name |-> "Income", keywords |-> <<
        <<"s","a","l","a","r","y">>, <<"p","a","y","r","o","l","l">>, <<"w","a","g","e">>, <<"i","n","c","o","m","e">>,
        <<"p","a","y","m","e","n","t"," ","r","e","c","e","i","v","e","d">>, <<"d","i","r","e","c","t"," ","d","e","p","o","s","i","t">>, <<"t","r","a","n","s","f","e","r"," ","f","r","o","m">>,
        <<"d","e","p","o","s","i","t">>, <<"r","e","f","u","n","d">>, <<"b","o","n","u","s">>, <<"c","o","m","m","i","s","s","i","o","n">>,
        <<"r","e","i","m","b","u","r","s","e","m","e","n","t">>, <<"d","i","v","i","d","e","n","d">>, <<"i","n","t","e","r","e","s","t"," ","e","a","r","n","e","d">>
    >>],
    [name |-> "Housing", keywords |-> <<
        <<"r","e","n","t">>, <<"m","o","r","t","g","a","g","e">>, <<"p","r","o","p","e","r","t","y"," ","t","a","x">>, <<"h","o","a">>,
        <<"h","o","m","e","o","w","n","e","r","s"," ","a","s","s","o","c","i","a","t","i","o","n">>, <<"p","r","o","p","e","r","t","y"," ","m","a","n","a","g","e","m","e","n","t">>, <<"l","e","a","s","e">>,
        <<"a","p","a","r","t","m","e","n","t">>, <<"c","o","n","d","o"," ","f","e","e">>
    >>],
    [name |-> "Utilities", keywords |-> <<
        <<"e","l","e","c","t","r","i","c">>, <<"e","l","e","c","t","r","i","c","i","t","y">>, <<"g","a","s">>, <<"w","a","t","e","r">>, <<"s","e","w","e","r">>,
        <<"t","r","a","s","h">>, <<"i","n","t","e","r","n","e","t">>, <<"w","i","f","i">>, <<"p","h","o","n","e">>, <<"m","o","b","i","l","e">>, <<"c","a","b","l","e">>,
        <<"u","t","i","l","i","t","y">>, <<"v","e","r","i","z","o","n">>, <<"a","t","t">>, <<"t","m","o","b","i","l","e">>, <<"c","o","m","c","a","s","t">>,
        <<"x","f","i","n","i","t","y">>
    >>],
    [name |-> "Food & Dining", keywords |-> <<
        <<"r","e","s","t","a","u","r","a","n","t">>, <<"c","a","f","e">>, <<"c","o","f","f","e","e">>, <<"s","t","a","r","b","u","c","k","s">>, <<"d","u","n","k","i","n">>,
        <<"m","c","d","o","n","a","l","d">>, <<"b","u","r","g","e","r">>, <<"p","i","z","z","a">>, <<"c","h","i","p","o","t","l","e">>, <<"s","u","b","w","a","y">>,
        <<"f","o","o","d">>, <<"g","r","o","c","e","r","y">>, <<"s","u","p","e","r","m","a","r","k","e","t">>, <<"w","h","o","l","e"," ","f","o","o","d","s">>,
        <<"t","r","a","d","e","r"," ","j","o","e">>, <<"s","a","f","e","w","a","y">>, <<"k","r","o","g","e","r">>, <<"w","a","l","m","a","r","t">>, <<"t","a","r","g","e","t">>,
        <<"c","o","s","t","c","o">>, <<"u","b","e","r"," ","e","a","t","s">>, <<"d","o","o","r","d","a","s","h">>, <<"g","r","u","b","h","u","b">>,
        <<"p","o","s","t","m","a","t","e","s">>, <<"d","i","n","i","n","g">>
    >>],
    [name |-> "Transportation", keywords |-> <<
        <<"g","a","s">>, <<"f","u","e","l">>, <<"s","h","e","l","l">>, <<"c","h","e","v","r","o","n">>, <<"e","x","x","o","n">>, <<"b","p">>, <<"7","6">>,
        <<"u","b","e","r">>, <<"l","y","f","t">>, <<"t","a","x","i">>, <<"p","a","r","k","i","n","g">>, <<"t","o","l","l">>, <<"m","e","t","r","o">>,
        <<"t","r","a","n","s","i","t">>, <<"b","u","s">>, <<"t","r","a","i","n">>, <<"s","u","b","w","a","y">>, <<"c","a","r"," ","p","a","y","m","e","n","t">>,
        <<"a","u","t","o"," ","i","n","s","u","r","a","n","c","e">>, <<"d","m","v">>, <<"v","e","h","i","c","l","e">>, <<"r","e","p","a","i","r">>, <<"m","e","c","h","a","n","i","c">>
    >>],
    [name |-> "Entertainment", keywords |-> <<
        <<"m","o","v","i","e">>, <<"t","h","e","a","t","e","r">>, <<"c","i","n","e","m","a">>, <<"s","p","o","t","i","f","y">>, <<"a","p","p","l","e"," ","m","u","s","i","c">>,
        <<"e","n","t","e","r","t","a","i","n","m","e","n","t">>, <<"g","a","m","e">>, <<"s","t","e","a","m">>, <<"p","l","a","y","s","t","a","t","i","o","n">>, <<"x","b","o","x">>,
        <<"c","o","n","c","e","r","t">>, <<"e","v","e","n","t">>, <<"t","i","c","k","e","t">>, <<"a","m","u","s","e","m","e","n","t">>, <<"r","e","c","r","e","a","t","i","o","n">>
    >>],
    [name |-> "Shopping", keywords |-> <<
        <<"a","m","a","z","o","n">>, <<"e","b","a","y">>, <<"w","a","l","m","a","r","t">>, <<"t","a","r","g","e","t">>, <<"b","e","s","t"," ","b","u","y">>,
        <<"h","o","m","e"," ","d","e","p","o","t">>, <<"l","o","w","e","s">>, <<"i","k","e","a">>, <<"c","l","o","t","h","i","n","g">>, <<"a","p","p","a","r","e","l">>,
        <<"s","h","o","e","s">>, <<"e","l","e","c","t","r","o","n","i","c","s">>, <<"r","e","t","a","i","l">>, <<"s","t","o","r","e">>, <<"s","h","o","p">>,
        <<"m","a","l","l">>, <<"m","a","c","y","s">>, <<"n","o","r","d","s","t","r","o","m">>, <<"g","a","p">>, <<"o","l","d"," ","n","a","v","y">>
    >>],
    [name |-> "Healthcare", keywords |-> <<
        <<"p","h","a","r","m","a","c","y">>, <<"c","v","s">>, <<"w","a","l","g","r","e","e","n","s">>, <<"r","i","t","e"," ","a","i","d">>, <<"m","e","d","i","c","a","l">>,
        <<"d","o","c","t","o","r">>, <<"h","o","s","p","i","t","a","l">>, <<"d","e","n","t","a","l">>, <<"d","e","n","t","i","s","t">>, <<"h","e","a","l","t","h">>,
        <<"i","n","s","u","r","a","n","c","e">>, <<"c","l","i","n","i","c">>, <<"p","r","e","s","c","r","i","p","t","i","o","n">>, <<"m","e","d","i","c","i","n","e">>
    >>],
    [name |-> "Subscriptions", keywords |-> <<
        <<"n","e","t","f","l","i","x">>, <<"h","u","l","u">>, <<"d","i","s","n","e","y">>, <<"a","m","a","z","o","n"," ","p","r","i","m","e">>,
        <<"y","o","u","t","u","b","e"," ","p","r","e","m","i","u","m">>, <<"s","u","b","s","c","r","i","p","t","i","o","n">>, <<"m","e","m","b","e","r","s","h","i","p">>,
        <<"a","n","n","u","a","l"," ","f","e","e">>, <<"m","o","n","t","h","l","y"," ","f","e","e">>, <<"s","p","o","t","i","f","y">>, <<"a","p","p","l","e"," ","t","v">>,
        <<"h","b","o">>, <<"p","a","r","a","m","o","u","n","t">>, <<"p","e","a","c","o","c","k">>, <<"g","y","m">>, <<"f","i","t","n","e","s","s">>,
        <<"p","l","a","n","e","t"," ","f","i","t","n","e","s","s">>, <<"2","4"," ","h","o","u","r"," ","f","i","t","n","e","s","s">>
    >>],
    [name |-> "Insurance", keywords |-> <<
        <<"i","n","s","u","r","a","n","c","e">>, <<"g","e","i","c","o">>, <<"s","t","a","t","e"," ","f","a","r","m">>, <<"a","l","l","s","t","a","t","e">>,
        <<"p","r","o","g","r","e","s","s","i","v","e">>, <<"p","o","l","i","c","y">>, <<"p","r","e","m","i","u","m">>, <<"h","e","a","l","t","h"," ","i","n","s","u","r","a","n","c","e">>,
        <<"l","i","f","e"," ","i","n","s","u","r","a","n","c","e">>
    >>],
    [name |-> "Debt Payments", keywords |-> <<
        <<"c","r","e","d","i","t"," ","c","a","r","d"," ","p","a","y","m","e","n","t">>, <<"l","o","a","n"," ","p","a","y","m","e","n","t">>, <<"s","t","u","d","e","n","t"," ","l","o","a","n">>,
        <<"p","a","y","m","e","n","t"," ","t","o">>, <<"c","h","a","s","e"," ","p","a","y","m","e","n","t">>, <<"b","a","n","k"," ","o","f"," ","a","m","e","r","i","c","a"," ","p","a","y","m","e","n","t">>,
        <<"c","a","p","i","t","a","l"," ","o","n","e"," ","p","a","y","m","e","n","t">>, <<"d","i","s","c","o","v","e","r"," ","p","a","y","m","e","n","t">>, <<"a","m","e","x"," ","p","a","y","m","e","n","t">>
    >>],
    [name |-> "Savings & Investments", keywords |-> <<
        <<"t","r","a","n","s","f","e","r"," ","t","o"," ","s","a","v","i","n","g","s">>, <<"i","n","v","e","s","t","m","e","n","t">>, <<"b","r","o","k","e","r","a","g","e">>,
        <<"f","i","d","e","l","i","t","y">>, <<"v","a","n","g","u","a","r","d">>, <<"c","h","a","r","l","e","s"," ","s","c","h","w","a","b">>, <<"e","t","r","a","d","e">>,
        <<"r","o","b","i","n","h","o","o","d">>, <<"4","0","1","k">>, <<"i","r","a">>, <<"r","e","t","i","r","e","m","e","n","t">>,
        <<"s","a","v","i","n","g","s"," ","a","c","c","o","u","n","t">>
    >>],
    [name |-> "Personal Care", keywords |-> <<
        <<"s","a","l","o","n">>, <<"h","a","i","r","c","u","t">>, <<"s","p","a">>, <<"b","e","a","u","t","y">>, <<"c","o","s","m","e","t","i","c","s">>,
        <<"h","y","g","i","e","n","e">>, <<"p","e","r","s","o","n","a","l"," ","c","a","r","e">>, <<"b","a","r","b","e","r">>
    >>],
    [name |-> "Education", keywords |-> <<
        <<"t","u","i","t","i","o","n">>, <<"s","c","h","o","o","l">>, <<"u","n","i","v","e","r","s","i","t","y">>, <<"c","o","l","l","e","g","e">>, <<"c","o","u","r","s","e">>,
        <<"t","e","x","t","b","o","o","k">>, <<"e","d","u","c","a","t","i","o","n">>, <<"l","e","a","r","n","i","n","g">>, <<"u","d","e","m","y">>, <<"c","o","u","r","s","e","r","a">>
    >>],
    [name |-> "Pets", keywords |-> <<
        <<"p","e","t">>, <<"v","e","t">>, <<"v","e","t","e","r","i","n","a","r","y">>, <<"p","e","t","s","m","a","r","t">>, <<"p","e","t","c","o">>, <<"d","o","g">>,
        <<"c","a","t">>, <<"a","n","i","m","a","l">>
    >>],
    [name |-> "Travel", keywords |-> <<
        <<"a","i","r","l","i","n","e">>, <<"f","l","i","g","h","t">>, <<"h","o","t","e","l">>, <<"a","i","r","b","n","b">>, <<"b","o","o","k","i","n","g">>,
        <<"t","r","a","v","e","l">>, <<"v","a","c","a","t","i","o","n">>, <<"r","e","s","o","r","t">>, <<"m","a","r","r","i","o","t","t">>, <<"h","i","l","t","o","n">>,
        <<"d","e","l","t","a">>, <<"u","n","i","t","e","d">>, <<"a","m","e","r","i","c","a","n"," ","a","i","r","l","i","n","e","s">>, <<"s","o","u","t","h","w","e","s","t">>
    >>],
    [name |-> "Fees & Charges", keywords |-> <<
        <<"f","e","e">>, <<"c","h","a","r","g","e">>, <<"a","t","m">>, <<"o","v","e","r","d","r","a","f","t">>, <<"l","a","t","e"," ","f","e","e">>,
        <<"s","e","r","v","i","c","e"," ","c","h","a","r","g","e">>, <<"m","a","i","n","t","e","n","a","n","c","e"," ","f","e","e">>, <<"p","e","n","a","l","t","y">>
    >>],
    [name |-> "Cash & ATM", keywords |-> <<
        <<"a","t","m"," ","w","i","t","h","d","r","a","w","a","l">>, <<"c","a","s","h">>, <<"w","i","t","h","d","r","a","w","a","l">>
    >>],
    [name |-> "Taxes", keywords |-> <<
        <<"i","r","s">>, <<"t","a","x">>, <<"f","e","d","e","r","a","l"," ","t","a","x">>, <<"s","t","a","t","e"," ","t","a","x">>, <<"t","a","x"," ","p","a","y","m","e","n","t">>
    >>]
>>

\* dict.get(key, default)
get(t, key, default) == IF key \in DOMAIN t THEN t[key] ELSE default

\* _matches_keywords
matches_keywords(txt, keywords) == ContainsAny(lower(txt), keywords)

CategoryIndex(name) == CHOOSE i \in 1..Len(CATEGORIES) : CATEGORIES[i].name = name

\* The categories other than Income whose keywords match, as indices of CATEGORIES
ExpenseMatches(description) ==
    {i \in 1..Len(CATEGORIES) :
        /\ CATEGORIES[i].name # "Income"
        /\ matches_keywords(description, CATEGORIES[i].keywords)}

\* categorize_transaction with the last matching category winning
categorize_transaction_last_match(transaction) ==
    LET description == lower(get(transaction, "description", <<>>))
        transaction_type == get(transaction, "type", "debit")
        amount == get(transaction, "amount", 0)
        hits == ExpenseMatches(description)
    IN  IF /\ transaction_type = "credit" /\ amount > 0
           /\ matches_keywords(description, CATEGORIES[CategoryIndex("Income")].keywords)
        THEN "Income"
        ELSE IF hits # {}
             THEN CATEGORIES[CHOOSE i \in hits : \A h \in hits : i >= h].name
             ELSE IF transaction_type = "debit" THEN "Other" ELSE "Income"

\* categorize_transaction with the income test made on the size of the amount
categorize_transaction_large_credit(transaction) ==
    LET description == lower(get(transaction, "description", <<>>))
        transaction_type == get(transaction, "type", "debit")
        amount == get(transaction, "amount", 0)
        hits == ExpenseMatches(description)
    IN  IF /\ transaction_type = "credit" /\ amount > 100000
           /\ matches_keywords(description, CATEGORIES[CategoryIndex("Income")].keywords)
        THEN "Income"
        ELSE IF hits # {}
             THEN CATEGORIES[CHOOSE i \in hits : \A h \in hits : i <= h].name
             ELSE IF transaction_type = "debit" THEN "Other" ELSE "Income"

\* categorize_transaction with a transaction without a type taken for a credit
categorize_transaction_untyped_credit(transaction) ==
    LET description == lower(get(transaction, "description", <<>>))
        transaction_type == get(transaction, "type", "credit")
        amount == get(transaction, "amount", 0)
        hits == ExpenseMatches(description)
    IN  IF /\ transaction_type = "credit" /\ amount > 0
           /\ matches_keywords(description, CATEGORIES[CategoryIndex("Income")].keywords)
        THEN "Income"
        ELSE IF hits # {}
             THEN CATEGORIES[CHOOSE i \in hits : \A h \in hits : i <= h].name
             ELSE IF transaction_type = "debit" THEN "Other" ELSE "Income"

\* categorize_transaction
categorize_transaction(transaction) ==
    LET description == lower(get(transaction, "description", <<>>))
        transaction_type == get(transaction, "type", "debit")
        amount == get(transaction, "amount", 0)
        hits == ExpenseMatches(description)
    IN  IF /\ transaction_type = "credit" /\ amount > 0
           /\ matches_keywords(description, CATEGORIES[CategoryIndex("Income")].keywords)
        THEN "Income"
        ELSE IF hits # {}
             THEN CATEGORIES[CHOOSE i \in hits : \A h \in hits : i <= h].name
             ELSE IF transaction_type = "debit" THEN "Other" ELSE "Income"

\* txn['category'] = category
WithCategory(txn, category) ==
    [k \in DOMAIN txn \cup {"category"} |-> IF k = "category" THEN category ELSE txn[k]]

\* categorize_transactions with the list returned in the reverse order
categorize_transactions_reversed(txns) ==
    [i \in 1..Len(txns) |->
        WithCategory(txns[Len(txns) + 1 - i],
                     categorize_transaction(txns[Len(txns) + 1 - i]))]

\* categorize_transactions: every transaction of the list gets its category
categorize_transactions(txns) ==
    [i \in 1..Len(txns) |-> WithCategory(txns[i], categorize_transaction(txns[i]))]

FixedCategories == {"Housing", "Insurance", "Debt Payments", "Subscriptions", "Utilities"}
DiscretionaryCategories ==
    {"Entertainment", "Shopping", "Dining", "Travel", "Personal Care", "Food & Dining"}

\* classify_expense_type
classify_expense_type(category) ==
    IF category \in FixedCategories THEN "Fixed"
    ELSE IF category \in DiscretionaryCategories THEN "Discretionary"
    ELSE "Variable"

----------------------------------------------------------------------------
(* FinancialMetricsEngine                                                  *)

abs(x) == IF x < 0 THEN -x ELSE x

RECURSIVE SumFrom(_, _, _)
\* nums[lo] + ... + nums[hi], by halves
SumFrom(nums, lo, hi) ==
    IF lo > hi THEN 0
    ELSE IF lo = hi THEN nums[lo]
    ELSE SumFrom(nums, lo, (lo + hi) \div 2) + SumFrom(nums, (lo + hi) \div 2 + 1, hi)

Sum(nums) == SumFrom(nums, 1, Len(nums))

\* round(num / den) for den > 0
RoundDiv(num, den) == (num \div den) + (IF 2 * (num % den) >= den THEN 1 ELSE 0)

RECURSIVE Power10(_)
Power10(n) == IF n = 0 THEN 1 ELSE 10 * Power10(n - 1)

RECURSIVE ScaledDiv(_, _, _)
\* round(10^digits * num / den) for den > 0, by long division
ScaledDiv(num, den, digits) ==
    IF digits = 0 THEN RoundDiv(num, den)
    ELSE Power10(digits) * (num \div den) + ScaledDiv(10 * (num % den), den, digits - 1)

\* round(num / den * 100, 2), in hundredths of a percent
Percent(num, den) == ScaledDiv(num, den, 4)

\* txn.get('type') == 'debit' or txn.get('amount', 0) < 0
IsExpense(txn) == get(txn, "type", "None") = "debit" \/ get(txn, "amount", 0) < 0

\* sum(abs(amount) for the transactions that satisfy keep)
Total(txns, keep(_)) ==
    Sum([i \in 1..Len(txns) |-> IF keep(txns[i]) THEN abs(get(txns[i], "amount", 0)) ELSE 0])

\* _calculate_total_income
calculate_total_income(txns) ==
    Total(txns, LAMBDA txn :
        \/ get(txn, "category", "None") = "Income"
        \/ get(txn, "type", "None") = "credit" /\ get(txn, "amount", 0) > 0)

NotSpending == {"Income", "Savings & Investments", "Debt Payments"}

\* _calculate_total_expenses
calculate_total_expenses(txns) ==
    Total(txns, LAMBDA txn : get(txn, "category", "") \notin NotSpending /\ IsExpense(txn))

\* A transaction _get_category_breakdown counts
InBreakdown(txn) == get(txn, "category", "Other") # "Income" /\ IsExpense(txn)

\* The keys of the dict, in the order of insertion: a category enters with the
\* first transaction that counts for it
FirstSeen(txns) ==
    LET firsts == Indices(Len(txns), LAMBDA i :
                      /\ InBreakdown(txns[i])
                      /\ \A j \in 1..(i - 1) :
                             ~(/\ InBreakdown(txns[j])
                               /\ get(txns[j], "category", "Other")
                                      = get(txns[i], "category", "Other")))
    IN  [k \in 1..Len(firsts) |-> get(txns[firsts[k]], "category", "Other")]

\* SortDescending with the items of equal amount in the reverse order
SortDescending_ties_reversed(items) ==
    LET rank(k) == Cardinality({j \in 1..Len(items) :
                        \/ items[j].amount > items[k].amount
                        \/ items[j].amount = items[k].amount /\ j > k})
    IN  [r \in 1..Len(items) |-> items[CHOOSE k \in 1..Len(items) : rank(k) = r - 1]]

\* sorted(items, key=amount, reverse=True): a stable sort, an item stands behind
\* the larger items and behind the equal items that came before it
SortDescending(items) ==
    LET rank(k) == Cardinality({j \in 1..Len(items) :
                        \/ items[j].amount > items[k].amount
                        \/ items[j].amount = items[k].amount /\ j < k})
    IN  [r \in 1..Len(items) |-> items[CHOOSE k \in 1..Len(items) : rank(k) = r - 1]]

\* _get_category_breakdown: the dict as the sequence of its items
get_category_breakdown(txns) ==
    LET cats == FirstSeen(txns)
    IN  SortDescending([k \in 1..Len(cats) |->
            [category |-> cats[k],
             amount |-> Total(txns, LAMBDA txn :
                 get(txn, "category", "Other") = cats[k] /\ IsExpense(txn))]])

\* _calculate_fixed_variable
calculate_fixed_variable(txns) ==
    [kind \in {"Fixed", "Variable", "Discretionary"} |->
        Total(txns, LAMBDA txn :
            /\ get(txn, "category", "None") # "Income"
            /\ IsExpense(txn)
            /\ classify_expense_type(get(txn, "category", "Other")) = kind)]

\* _calculate_savings_rate, as round(rate, 2) in hundredths of a percent
calculate_savings_rate(income, expenses) ==
    IF income <= 0 THEN 0 ELSE Percent(income - expenses, income)

\* _calculate_discretionary_ratio
calculate_discretionary_ratio(fixed_var) ==
    LET total == fixed_var["Fixed"] + fixed_var["Variable"] + fixed_var["Discretionary"]
    IN  IF total <= 0 THEN 0 ELSE Percent(fixed_var["Discretionary"], total)

\* txn.get('date') of a transaction that has no date: None
NoDate == [day |-> 0, tick |-> 0]
DateOf(txn) == get(txn, "date", NoDate)

\* The values of daily_expenses, in the order of insertion: one total for each
\* distinct value of 'date' among the expense transactions
daily_expenses(txns) ==
    LET firsts == Indices(Len(txns), LAMBDA i :
                      /\ IsExpense(txns[i])
                      /\ \A j \in 1..(i - 1) :
                             ~(IsExpense(txns[j]) /\ DateOf(txns[j]) = DateOf(txns[i])))
    IN  [k \in 1..Len(firsts) |->
            Total(txns, LAMBDA txn :
                IsExpense(txn) /\ DateOf(txn) = DateOf(txns[firsts[k]]))]

\* Naturals beyond the machine word, as six digits of base 10000, the least
\* significant first: the squares of amounts in cents need them
RECURSIVE Carry(_, _, _)
Carry(cols, i, carry) ==
    IF i > Len(cols) THEN <<>>
    ELSE <<(cols[i] + carry) % 10000>> \o Carry(cols, i + 1, (cols[i] + carry) \div 10000)

BigOf(n) ==
    <<n % 10000, (n \div 10000) % 10000, n \div 100000000, 0, 0, 0>>

BigAdd(a, b) == Carry([i \in 1..6 |-> a[i] + b[i]], 1, 0)

BigMul(a, b) ==
    Carry([k \in 1..6 |-> Sum([i \in 1..k |-> a[i] * b[k - i + 1]])], 1, 0)

RECURSIVE BigSumFrom(_, _, _)
BigSumFrom(bigs, lo, hi) ==
    IF lo > hi THEN BigOf(0)
    ELSE IF lo = hi THEN bigs[lo]
    ELSE BigAdd(BigSumFrom(bigs, lo, (lo + hi) \div 2),
                BigSumFrom(bigs, (lo + hi) \div 2 + 1, hi))

BigSum(bigs) == BigSumFrom(bigs, 1, Len(bigs))

BigLeq(a, b) ==
    LET differ == {i \in 1..6 : a[i] # b[i]}
    IN  \/ differ = {}
        \/ LET top == CHOOSE i \in differ : \A j \in differ : j <= i
           IN  a[top] < b[top]

\* The largest r of lo..hi with r = 0 or (2r - 1)^2 * scale + offset <= bound
RECURSIVE RoundedRoot(_, _, _, _, _)
RoundedRoot(lo, hi, scale, offset, bound) ==
    IF lo = hi THEN lo
    ELSE LET mid == (lo + hi + 1) \div 2
             odd == BigOf(2 * mid - 1)
         IN  IF BigLeq(BigAdd(BigMul(BigMul(odd, odd), scale), offset), bound)
             THEN RoundedRoot(mid, hi, scale, offset, bound)
             ELSE RoundedRoot(lo, mid - 1, scale, offset, bound)

\* round(statistics.stdev(values), 2) of two values or more, in cents: the sample
\* deviation sqrt((n * sum(x^2) - sum(x)^2) / (n * (n - 1))), which is at least
\* r - 1/2 when (2r - 1)^2 * n * (n - 1) + 4 * sum(x)^2 <= 4 * n * sum(x^2)
stdev(values) ==
    LET n == Len(values)
        largest == CHOOSE i \in 1..n : \A j \in 1..n : values[j] <= values[i]
        smallest == CHOOSE i \in 1..n : \A j \in 1..n : values[j] >= values[i]
        Root(squares, total) ==
            CHOOSE r \in {RoundedRoot(0, values[largest] - values[smallest],
                                      BigOf(n * (n - 1)), offset, bound) :
                              offset \in {BigMul(BigOf(4), BigMul(total, total))},
                              bound \in {BigMul(BigOf(4 * n), squares)}} : TRUE
    IN  CHOOSE r \in {Root(squares, total) :
                          squares \in {BigSum([i \in 1..n |->
                                          BigMul(BigOf(values[i]), BigOf(values[i]))])},
                          total \in {BigOf(Sum(values))}} : TRUE

\* _calculate_spending_volatility, as round(volatility, 2) in cents
calculate_spending_volatility(txns) ==
    LET daily == daily_expenses(txns)
    IN  IF Len(daily) < 2 THEN 0 ELSE stdev(daily)

\* _calculate_average_transaction
calculate_average_transaction(txns) ==
    LET n == Len(SelectSeq(txns, IsExpense))
    IN  IF n = 0 THEN 0 ELSE RoundDiv(Total(txns, IsExpense), n)

\* _calculate_debt_metrics
calculate_debt_metrics(txns) ==
    LET isDebt(txn) == get(txn, "category", "None") = "Debt Payments"
        n == Len(SelectSeq(txns, isDebt))
    IN  [total_debt_payments |-> Total(txns, isDebt),
         average_debt_payment |-> IF n = 0 THEN 0 ELSE RoundDiv(Total(txns, isDebt), n)]

\* The optional monthly_income argument: None, or a number
NoIncome == [given |-> FALSE, value |-> 0]
Income(v) == [given |-> TRUE, value |-> v]

\* calculate_all_metrics: monthly_income replaces the computed income when it is
\* given and not zero; the cash flow is computed before, from the computed income
calculate_all_metrics(txns, override) ==
    LET total_income == calculate_total_income(txns)
        total_expenses == calculate_total_expenses(txns)
        net_cash_flow == total_income - total_expenses
        income == IF override.given /\ override.value # 0 THEN override.value
                  ELSE total_income
        fixed_var == calculate_fixed_variable(txns)
        debt == calculate_debt_metrics(txns)
    IN  [total_income |-> income,
         total_expenses |-> total_expenses,
         net_cash_flow |-> net_cash_flow,
         expenses_by_category |-> get_category_breakdown(txns),
         fixed_expenses |-> fixed_var["Fixed"],
         variable_expenses |-> fixed_var["Variable"],
         discretionary_expenses |-> fixed_var["Discretionary"],
         savings_rate |-> calculate_savings_rate(income, total_expenses),
         expense_to_income_ratio |->
             IF income > 0 THEN Percent(total_expenses, income) ELSE 0,
         discretionary_ratio |-> calculate_discretionary_ratio(fixed_var),
         spending_volatility |-> calculate_spending_volatility(txns),
         total_debt_payments |-> debt.total_debt_payments,
         average_debt_payment |-> debt.average_debt_payment,
         average_transaction |-> calculate_average_transaction(txns),
         transaction_count |-> Len(txns)]


\* The key of a transaction in description_amounts
SubscriptionKey(txn) == lower(strip(get(txn, "description", <<>>)))

\* A transaction identify_recurring_subscriptions does not skip
IsSubscription(txn) ==
    get(txn, "category", "None") = "Subscriptions" /\ Len(SubscriptionKey(txn)) >= 3

\* The amounts of the group of a key, in the order of the list
GroupAmounts(txns, key) ==
    LET members == SelectSeq(txns, LAMBDA txn : IsSubscription(txn) /\ SubscriptionKey(txn) = key)
    IN  [i \in 1..Len(members) |-> abs(get(members[i], "amount", 0))]

\* all(abs(amt - avg_amount) < 1.0 for amt in amounts), avg_amount being
\* sum(amounts) / len(amounts): |n * amt - sum| < 100 * n in cents
AmountsSimilar(amounts) ==
    \A i \in 1..Len(amounts) :
        abs(Len(amounts) * amounts[i] - Sum(amounts)) < 100 * Len(amounts)

\* AmountsSimilar with a deviation of exactly one dollar accepted
AmountsSimilar_inclusive(amounts) ==
    \A i \in 1..Len(amounts) :
        abs(Len(amounts) * amounts[i] - Sum(amounts)) <= 100 * Len(amounts)

\* The groups of description_amounts, in the order in which their keys enter the
\* dict, each as the entry it would have in the result: the mean is rounded to
\* cents
SubscriptionGroups(txns) ==
    LET firsts == Indices(Len(txns), LAMBDA i :
                      /\ IsSubscription(txns[i])
                      /\ \A j \in 1..(i - 1) :
                             ~(/\ IsSubscription(txns[j])
                               /\ SubscriptionKey(txns[j]) = SubscriptionKey(txns[i])))
        amounts(k) == GroupAmounts(txns, SubscriptionKey(txns[firsts[k]]))
    IN  [k \in 1..Len(firsts) |->
            [description |-> SubscriptionKey(txns[firsts[k]]),
             amount |-> RoundDiv(Sum(amounts(k)), Len(amounts(k))),
             frequency |-> Len(amounts(k))]]

\* identify_recurring_subscriptions with a deviation of one dollar accepted
identify_recurring_subscriptions_inclusive(txns) ==
    SortDescending(SelectSeq(SubscriptionGroups(txns), LAMBDA g :
        g.frequency >= 2 /\ AmountsSimilar_inclusive(GroupAmounts(txns, g.description))))

\* identify_recurring_subscriptions
identify_recurring_subscriptions(txns) ==
    SortDescending(SelectSeq(SubscriptionGroups(txns), LAMBDA g :
        g.frequency >= 2 /\ AmountsSimilar(GroupAmounts(txns, g.description))))

----------------------------------------------------------------------------
(* ValidationEngine. The dicts it is given hold values of any type: a value *)
(* is a record of its type and, for a str or a float, of what it holds; a   *)
(* float is held in cents.                                                  *)

PyStr(s) == [type |-> "str", str |-> s]
PyFloat(cents) == [type |-> "float", cents |-> cents]
PyNone == [type |-> "NoneType"]

\* bool(value)
PyTruthy(value) ==
    IF value.type = "str" THEN value.str # <<>>
    ELSE IF value.type = "float" THEN value.cents # 0
    ELSE FALSE

\* str(value) of a float of at most two decimals: repr keeps one decimal at least
FormatFloat(cents) ==
    LET whole == NatToChars(abs(cents) \div 100)
        frac == abs(cents) % 100
        decimals == IF frac % 10 = 0 THEN NatToChars(frac \div 10)
                    ELSE <<DigitSeq[(frac \div 10) + 1], DigitSeq[(frac % 10) + 1]>>
    IN  (IF cents < 0 THEN <<"-">> ELSE <<>>) \o whole \o <<".">> \o decimals

\* f"{value}"
PyFormat(value) ==
    IF value.type = "str" THEN value.str
    ELSE IF value.type = "float" THEN FormatFloat(value.cents)
    ELSE <<"N","o","n","e">>

REQUIRED_FIELDS ==
    <<"total_income", "total_expenses", "expenses_by_category", "transaction_count">>
MIN_TRANSACTIONS == 5
\* 200 percent, in hundredths of a percent
MAX_DTI_RATIO == 20000
\* 0.01, in cents
MIN_INCOME == 1

\* _validate_single_transaction: the errors of the transaction at index
validate_single_transaction(txn, index) ==
    (IF "date" \notin DOMAIN txn \/ ~PyTruthy(txn.date)
     THEN <<[transaction |-> index, error |-> "Missing date"]>> ELSE <<>>)
    \o (IF "amount" \notin DOMAIN txn
        THEN <<[transaction |-> index, error |-> "Missing amount"]>>
        ELSE IF txn.amount.type # "float"
        THEN <<[transaction |-> index, error |-> "Invalid amount type"]>>
        ELSE <<>>)
    \o (IF "description" \notin DOMAIN txn \/ ~PyTruthy(txn.description)
        THEN <<[transaction |-> index, error |-> "Missing description"]>> ELSE <<>>)
    \o (IF "category" \notin DOMAIN txn
        THEN <<[transaction |-> index, error |-> "Missing category"]>> ELSE <<>>)

\* f"{txn.get('date')}_{txn.get('amount')}_{txn.get('description', '')[:20]}"
TransactionHash(txn) ==
    PyFormat(get(txn, "date", PyNone)) \o <<"_">> \o PyFormat(get(txn, "amount", PyNone))
        \o <<"_">> \o Truncate(get(txn, "description", PyStr(<<>>)).str, 20)

\* The transactions on which _check_transaction_consistency raises TypeError: a
\* description that is no str cannot be sliced, an amount that is no number has
\* no abs()
ConsistencyRaises(txns) ==
    \E i \in 1..Len(txns) :
        \/ get(txns[i], "description", PyStr(<<>>)).type # "str"
        \/ get(txns[i], "amount", PyFloat(0)).type # "float"

\* _check_transaction_consistency, for a list on which it does not raise
check_transaction_consistency(txns) ==
    LET duplicates == Cardinality({i \in 1..Len(txns) :
                          \E j \in 1..(i - 1) :
                              TransactionHash(txns[j]) = TransactionHash(txns[i])})
    IN  IF 10 * duplicates > Len(txns)
        THEN <<[error |-> "High number of potential duplicate transactions",
                duplicates |-> duplicates]>>
        ELSE <<>>

\* validate_transactions: (is_valid, errors), or the exception it raises
validate_transactions(txns) ==
    IF txns = <<>>
    THEN [exc |-> "None", is_valid |-> FALSE, errors |-> <<[error |-> "No transactions found"]>>]
    ELSE IF ConsistencyRaises(txns)
    THEN [exc |-> "TypeError", is_valid |-> FALSE, errors |-> <<>>]
    ELSE LET errors ==
                 (IF Len(txns) < MIN_TRANSACTIONS
                  THEN <<[error |-> "Insufficient transactions", count |-> Len(txns)]>>
                  ELSE <<>>)
                 \o Flatten([i \in 1..Len(txns) |-> validate_single_transaction(txns[i], i - 1)])
                 \o check_transaction_consistency(txns)
         IN  [exc |-> "None", is_valid |-> errors = <<>>, errors |-> errors]

\* validate_financial_state: the errors found before the cash flow is looked at
PresenceErrors(state) ==
    LET missing == SelectSeq(REQUIRED_FIELDS, LAMBDA field : field \notin DOMAIN state)
    IN  [i \in 1..Len(missing) |-> [error |-> "Missing required field", field |-> missing[i]]]
        \o (IF get(state, "total_income", 0) < MIN_INCOME
            THEN <<[error |-> "Income too low or missing"]>> ELSE <<>>)
        \o (IF get(state, "total_expenses", 0) < 0
            THEN <<[error |-> "Expenses cannot be negative"]>> ELSE <<>>)

\* validate_financial_state: the errors found after it, on rates held in
\* hundredths of a percent
RangeErrors(state) ==
    (IF ~(/\ -10000 <= get(state, "savings_rate", 0)
          /\ get(state, "savings_rate", 0) <= 10000)
     THEN <<[error |-> "Savings rate out of range"]>> ELSE <<>>)
    \o (IF get(state, "debt_to_income_ratio", 0) > MAX_DTI_RATIO
        THEN <<[error |-> "Debt-to-income ratio extremely high"]>> ELSE <<>>)

\* validate_financial_state: the cash flow is compared, to the cent, when the
\* income and the expenses are both above zero
validate_financial_state(state) ==
    LET income == get(state, "total_income", 0)
        expenses == get(state, "total_expenses", 0)
        cash_flow == get(state, "net_cash_flow", 0)
        errors == PresenceErrors(state)
                  \o (IF /\ income > 0 /\ expenses > 0
                         /\ abs(cash_flow - (income - expenses)) > 1
                      THEN <<[error |-> "Cash flow mismatch"]>> ELSE <<>>)
                  \o RangeErrors(state)
    IN  [exc |-> "None", is_valid |-> errors = <<>>, errors |-> errors]

----------------------------------------------------------------------------
(* AnalysisService: the debt accounts and the schema objects.              *)

\* round(x, 2) of the float computed for num / den cents, num >= 0: the nearest
\* cent; a float that stands for a half cent lies just below or just above the
\* half, so it goes down or up, as up tells
Round2(num, den, up) ==
    IF 2 * (num % den) = den THEN (num \div den) + (IF up THEN 1 ELSE 0)
    ELSE RoundDiv(num, den)

\* The ways the three roundings of _extract_debt_accounts may fall
Roundings == [balance : BOOLEAN, minimum : BOOLEAN, monthly : BOOLEAN]

\* 18.0 percent, in hundredths of a percent
EstimatedApr == 1800
\* 5000.0, in cents
DefaultCreditLimit == 500000

\* _extract_debt_accounts with an estimate of 3 percent of the expenses
extract_debt_accounts_three_percent(txt, txns, computed, up) ==
    LET reported == IF DOMAIN computed # {} THEN get(computed, "total_expenses", 0) ELSE 0
        total_expenses == IF reported = 0
                          THEN Total(txns, LAMBDA t : t.amount < 0)
                          ELSE reported
        estimated_balance == Round2(3 * total_expenses, 100, up.balance)
    IN  <<[account_id |-> "cc_estimated",
           account_type |-> "Credit Card",
           account_name |-> "Estimated Credit Usage",
           current_balance |-> estimated_balance,
           credit_limit |-> 3 * estimated_balance,
           apr |-> EstimatedApr,
           minimum_payment |-> Round2(3 * estimated_balance, 100, up.minimum),
           monthly_payment |-> Round2(6 * estimated_balance, 100, up.monthly)]>>

\* _extract_debt_accounts: one estimated credit card, of 30 percent of the
\* expenses the metrics report, or of the debits when the metrics report none
extract_debt_accounts(txt, txns, computed, up) ==
    LET reported == IF DOMAIN computed # {} THEN get(computed, "total_expenses", 0) ELSE 0
        total_expenses == IF reported = 0
                          THEN Total(txns, LAMBDA t : t.amount < 0)
                          ELSE reported
        estimated_balance == Round2(30 * total_expenses, 100, up.balance)
    IN  IF total_expenses > 0
        THEN <<[account_id |-> "cc_estimated",
                account_type |-> "Credit Card",
                account_name |-> "Estimated Credit Usage",
                current_balance |-> estimated_balance,
                credit_limit |-> 3 * estimated_balance,
                apr |-> EstimatedApr,
                minimum_payment |-> Round2(3 * estimated_balance, 100, up.minimum),
                monthly_payment |-> Round2(6 * estimated_balance, 100, up.monthly)]>>
        ELSE <<[account_id |-> "cc_default",
                account_type |-> "Credit Card",
                account_name |-> "General Credit",
                current_balance |-> 0,
                credit_limit |-> DefaultCreditLimit,
                apr |-> EstimatedApr,
                minimum_payment |-> 0,
                monthly_payment |-> 0]>>

\* DebtAccount(**d): the constraints of the fields and the two validators;
\* credit_limit, minimum_payment, apr and monthly_payment are optional
DebtAccount(d) ==
    [ok |-> /\ {"account_type", "current_balance"} \subseteq DOMAIN d
            /\ d.current_balance >= 0
            /\ "credit_limit" \in DOMAIN d
                   => (d.credit_limit >= 0 /\ d.credit_limit >= d.current_balance)
            /\ "minimum_payment" \in DOMAIN d => d.minimum_payment >= 0
            /\ "apr" \in DOMAIN d => (0 <= d.apr /\ d.apr <= 10000)
            /\ "monthly_payment" \in DOMAIN d => d.monthly_payment >= 0,
     account |-> d]

\* a > b on datetimes
Later(a, b) == a.day > b.day \/ (a.day = b.day /\ a.tick > b.tick)

\* Transaction(**txn_kwargs), built at the time now: the amount is not zero and
\* the date is not in the future; confidence keeps its default
Transaction(kwargs, now) ==
    [ok |-> kwargs.amount # 0 /\ ~Later(kwargs.date, now),
     object |-> kwargs]

\* The keyword arguments analyze_bank_statement builds from a categorized dict
txn_kwargs(t) ==
    [date |-> t.date, description |-> t.description, amount |-> t.amount,
     category |-> get(t, "category", "Uncategorized")]

\* The schema objects of the categorized transactions and of the debt accounts,
\* or the exception the construction raises: t["date"] of a dict without a date
\* is a KeyError, a model that rejects its fields a ValidationError
schema_objects(txns, debts, now) ==
    IF \E i \in 1..Len(txns) : "date" \notin DOMAIN txns[i]
    THEN [exc |-> "KeyError", transactions |-> <<>>, debt_accounts |-> <<>>]
    ELSE IF \/ \E i \in 1..Len(txns) : ~Transaction(txn_kwargs(txns[i]), now).ok
            \/ \E i \in 1..Len(debts) : ~DebtAccount(debts[i]).ok
    THEN [exc |-> "ValidationError", transactions |-> <<>>, debt_accounts |-> <<>>]
    ELSE [exc |-> "None",
          transactions |-> [i \in 1..Len(txns) |->
                               Transaction(txn_kwargs(txns[i]), now).object],
          debt_accounts |-> [i \in 1..Len(debts) |-> DebtAccount(debts[i]).account]]

----------------------------------------------------------------------------
(* The state of the workflow.                                              *)

\* create_initial_state: the metrics are read with metrics.get(key, default)
create_initial_state(txns, debts, computed, analysis_id, now) ==
    [transactions |-> txns,
     debt_accounts |-> debts,
     analysis_id |-> analysis_id,
     total_income |-> get(computed, "total_income", 0),
     total_expenses |-> get(computed, "total_expenses", 0),
     net_income |-> get(computed, "net_income", 0),
     savings_rate |-> get(computed, "savings_rate", 0),
     expense_volatility |-> get(computed, "expense_volatility", 0),
     debt_to_income_ratio |-> get(computed, "debt_to_income_ratio", 0),
     expense_by_category |-> get(computed, "expense_by_category", <<>>),
     income_by_source |-> get(computed, "income_by_source", <<>>),
     recurring_subscriptions |-> get(computed, "recurring_subscriptions", <<>>),
     timestamp |-> now,
     processing_status |-> "processing",
     errors |-> <<>>,
     warnings |-> <<>>,
     debt_analysis |-> PyNone,
     savings_strategy |-> PyNone,
     budget_recommendations |-> PyNone,
     risk_score |-> PyNone]

----------------------------------------------------------------------------
(* The nodes of the workflow.                                              *)

\* What agent.analyze(state) does: it returns the parsed output of the model,
\* or it raises (the call to the model failed, or its answer did not validate)
AgentOutcomes == {"returns", "raises"}

\* str(e) of the exception of an agent
AgentFailure == <<"L","L","M"," ","c","a","l","l"," ","f","a","i","l","e","d">>

\* The output of an agent, an object of its output schema
Output(schema) == [type |-> schema]

\* The node of an agent that lets the exception of its agent through
agent_node_uncaught(state, field, label, schema, outcome) ==
    IF outcome = "raises"
    THEN [exc |-> TRUE, state |-> state]
    ELSE [exc |-> FALSE, state |-> [state EXCEPT ![field] = Output(schema)]]

\* The body the four agent nodes share: the output is stored under the field of
\* the node; an exception is caught, recorded in state["errors"] and the field
\* is set to None
agent_node(state, field, label, schema, outcome) ==
    IF outcome = "raises"
    THEN [exc |-> FALSE,
          state |-> [state EXCEPT !.errors = Append(@, label \o <<":"," ">> \o AgentFailure),
                                  ![field] = PyNone]]
    ELSE [exc |-> FALSE, state |-> [state EXCEPT ![field] = Output(schema)]]

debt_analyzer_node(state, outcome) ==
    agent_node(state, "debt_analysis", <<"D","e","b","t"," ","a","n","a","l","y","s","i","s">>, "DebtAnalysisOutput", outcome)

savings_strategy_node(state, outcome) ==
    agent_node(state, "savings_strategy", <<"S","a","v","i","n","g","s"," ","s","t","r","a","t","e","g","y">>, "SavingsStrategyOutput",
               outcome)

budget_optimizer_node(state, outcome) ==
    agent_node(state, "budget_recommendations", <<"B","u","d","g","e","t"," ","o","p","t","i","m","i","z","a","t","i","o","n">>, "BudgetOutput",
               outcome)

risk_scorer_node(state, outcome) ==
    agent_node(state, "risk_score", <<"R","i","s","k"," ","s","c","o","r","i","n","g">>, "RiskScoreOutput", outcome)

\* finalize_node that reports every analysis as complete
finalize_node_always_complete(state) ==
    [state EXCEPT !.processing_status = "complete"]

\* finalize_node: the status tells whether state["errors"] holds an error
finalize_node(state) ==
    [state EXCEPT !.processing_status =
        IF state.errors # <<>> THEN "complete_with_errors" ELSE "complete"]

----------------------------------------------------------------------------
(* The graphs of the workflow.                                             *)

START == "__start__"
END == "__end__"

AgentNodes == {"debt_analyzer", "savings_strategy", "budget_optimizer", "risk_scorer"}

\* The function add_node gives a node
run_node(name, state, outcome) ==
    CASE name = "debt_analyzer" -> debt_analyzer_node(state, outcome)
      [] name = "savings_strategy" -> savings_strategy_node(state, outcome)
      [] name = "budget_optimizer" -> budget_optimizer_node(state, outcome)
      [] name = "risk_scorer" -> risk_scorer_node(state, outcome)
      [] name = "finalize" -> [exc |-> FALSE, state |-> finalize_node(state)]

\* create_financial_analysis_graph: the edges, the entry point being an edge
\* from START
create_financial_analysis_graph ==
    {<<START, "debt_analyzer">>,
     <<"debt_analyzer", "savings_strategy">>,
     <<"savings_strategy", "budget_optimizer">>,
     <<"budget_optimizer", "risk_scorer">>,
     <<"risk_scorer", "finalize">>,
     <<"finalize", END>>}

\* create_parallel_financial_analysis_graph: three entry points
create_parallel_financial_analysis_graph ==
    {<<START, "debt_analyzer">>, <<START, "savings_strategy">>,
     <<START, "budget_optimizer">>,
     <<"debt_analyzer", "risk_scorer">>,
     <<"savings_strategy", "risk_scorer">>,
     <<"budget_optimizer", "risk_scorer">>,
     <<"risk_scorer", "finalize">>,
     <<"finalize", END>>}

\* The graph analyze_finances builds
Graph(parallel) ==
    IF parallel THEN create_parallel_financial_analysis_graph
    ELSE create_financial_analysis_graph

\* The nodes an edge of the graph leads to from one of the nodes given
Targets(graph, nodes) == {e[2] : e \in {d \in graph : d[1] \in nodes}} \ {END}

\* A runner that starts the targets of a node as soon as that node has run
NextStep_eager(graph, waiting, ran, name) ==
    [active |-> (waiting \ {name}) \cup Targets(graph, {name}), finished |-> {}]

\* graph.invoke runs the graph step by step: the nodes of a step are the
\* targets of the nodes of the step before, and the next step starts when all
\* of them have run
NextStep(graph, waiting, ran, name) ==
    IF waiting \ {name} # {}
    THEN [active |-> waiting \ {name}, finished |-> ran \cup {name}]
    ELSE [active |-> Targets(graph, ran \cup {name}), finished |-> {}]

----------------------------------------------------------------------------
(* The OCR engine and the analysis endpoint.                               *)

\* The least number of characters of a text pdfplumber extracted that makes
\* extract_from_pdf return it
MinPlumberText == 100

\* OCREngine.extract_from_pdf of a document: the text layer pdfplumber reads
\* (reading a damaged file raises, which is caught), else the page images read
\* by the OCR service when the service answers, else an empty result;
\* convert_from_path raises on a file that is no PDF and nothing catches it
extract_from_pdf(doc) ==
    IF doc.content # "damaged" /\ Len(strip(doc.text)) > MinPlumberText
    THEN [exc |-> "None", method |-> "pdfplumber", text |-> doc.text,
          tables |-> doc.tables]
    ELSE IF doc.ocr_service
    THEN IF doc.content = "damaged"
         THEN [exc |-> "PDFPageCountError", method |-> "docker_paddleocr",
               text |-> <<>>, tables |-> <<>>]
         ELSE [exc |-> "None", method |-> "docker_paddleocr", text |-> doc.scan,
               tables |-> <<>>]
    ELSE [exc |-> "None", method |-> "failed", text |-> <<>>, tables |-> <<>>]

\* s.endswith(suffix)
endswith(s, suffix) ==
    Len(s) >= Len(suffix) /\ SubSeq(s, Len(s) - Len(suffix) + 1, Len(s)) = suffix

NoResponse == [status_code |-> 0]

\* raise HTTPException(status_code, detail)
HTTPException(status_code, detail) == [status_code |-> status_code, detail |-> detail]

\* The agent outputs _format_analysis_response copies into 'analysis'
AnalysisKeys ==
    [debt |-> "debt_analysis", savings |-> "savings_strategy",
     budget |-> "budget_recommendations", risk |-> "risk_score"]

\* _format_analysis_response: the response built from the final state
format_analysis_response(result) ==
    [status_code |-> 200,
     analysis_id |-> get(result, "analysis_id", "unknown"),
     status |-> get(result, "processing_status", "unknown"),
     summary |-> [total_income |-> get(result, "total_income", 0),
                  total_expenses |-> get(result, "total_expenses", 0),
                  net_income |-> get(result, "net_income", 0),
                  savings_rate |-> get(result, "savings_rate", 0),
                  debt_to_income_ratio |-> get(result, "debt_to_income_ratio", 0)],
     transactions |-> get(result, "transactions", <<>>),
     debt_accounts |-> get(result, "debt_accounts", <<>>),
     analysis |-> {k \in DOMAIN AnalysisKeys :
                      get(result, AnalysisKeys[k], PyNone) # PyNone},
     errors |-> get(result, "errors", <<>>),
     warnings |-> <<>>]
----------------------------------------------------------------------------
(* The inputs of the model.                                                *)

\* test_data.sample_statements.SIMPLE_STATEMENT, line by line
SIMPLE_STATEMENT_LINES == <<
    <<>>,
    <<"P","E","R","S","O","N","A","L"," ","B","A","N","K"," ","S","T","A","T","E","M","E","N","T">>,
    <<"A","c","c","o","u","n","t",":"," ","*","*","*","*"," ","1","2","3","4">>,
    <<"P","e","r","i","o","d",":"," ","J","a","n","u","a","r","y"," ","1","-","3","1",","," ","2","0","2","4">>,
    <<>>,
    <<"D","E","P","O","S","I","T","S"," ","A","N","D"," ","C","R","E","D","I","T","S">>,
    <<"D","a","t","e"," "," "," "," "," "," "," "," ","D","e","s","c","r","i","p","t","i","o","n"," "," "," "," "," "," "," "," "," "," "," "," "," "," "," "," "," "," "," "," "," ","A","m","o","u","n","t">>,
    <<"0","1","/","0","5","/","2","4"," "," "," "," ","E","m","p","l","o","y","e","r"," ","D","i","r","e","c","t"," ","D","e","p","o","s","i","t"," "," "," "," "," "," "," "," ","+","4",",","5","0","0",".","0","0">>,
    <<"0","1","/","1","5","/","2","4"," "," "," "," ","F","r","e","e","l","a","n","c","e"," ","P","a","y","m","e","n","t"," "," "," "," "," "," "," "," "," "," "," "," "," "," ","+","1",",","2","0","0",".","0","0">>,
    <<"0","1","/","2","0","/","2","4"," "," "," "," ","T","a","x"," ","R","e","f","u","n","d"," "," "," "," "," "," "," "," "," "," "," "," "," "," "," "," "," "," "," "," "," "," "," ","+","5","0","0",".","0","0">>,
    <<>>,
    <<"W","I","T","H","D","R","A","W","A","L","S"," ","A","N","D"," ","D","E","B","I","T","S">>,
    <<"D","a","t","e"," "," "," "," "," "," "," "," ","D","e","s","c","r","i","p","t","i","o","n"," "," "," "," "," "," "," "," "," "," "," "," "," "," "," "," "," "," "," "," "," ","A","m","o","u","n","t">>,
    <<"0","1","/","0","2","/","2","4"," "," "," "," ","R","e","n","t"," ","-"," ","L","a","n","d","l","o","r","d"," ","P","a","y","m","e","n","t"," "," "," "," "," "," "," "," ","-","1",",","8","0","0",".","0","0">>,
    <<"0","1","/","0","3","/","2","4"," "," "," "," ","W","h","o","l","e"," ","F","o","o","d","s"," ","M","a","r","k","e","t"," "," "," "," "," "," "," "," "," "," "," "," "," "," "," ","-","1","5","6",".","7","8">>,
    <<"0","1","/","0","5","/","2","4"," "," "," "," ","S","h","e","l","l"," ","G","a","s"," ","S","t","a","t","i","o","n"," "," "," "," "," "," "," "," "," "," "," "," "," "," "," "," "," ","-","5","2",".","0","0">>,
    <<"0","1","/","0","6","/","2","4"," "," "," "," ","A","m","a","z","o","n",".","c","o","m"," "," "," "," "," "," "," "," "," "," "," "," "," "," "," "," "," "," "," "," "," "," "," ","-","8","9",".","9","9">>,
    <<"0","1","/","0","7","/","2","4"," "," "," "," ","S","t","a","r","b","u","c","k","s"," "," "," "," "," "," "," "," "," "," "," "," "," "," "," "," "," "," "," "," "," "," "," "," "," ","-","1","2",".","5","0">>,
    <<"0","1","/","0","8","/","2","4"," "," "," "," ","T","a","r","g","e","t"," "," "," "," "," "," "," "," "," "," "," "," "," "," "," "," "," "," "," "," "," "," "," "," "," "," ","-","1","4","5",".","3","2">>,
    <<"0","1","/","1","0","/","2","4"," "," "," "," ","E","l","e","c","t","r","i","c"," ","C","o","m","p","a","n","y"," "," "," "," "," "," "," "," "," "," "," "," "," "," "," "," "," ","-","9","8",".","5","0">>,
    <<"0","1","/","1","0","/","2","4"," "," "," "," ","W","a","t","e","r"," ","U","t","i","l","i","t","y"," "," "," "," "," "," "," "," "," "," "," "," "," "," "," "," "," "," "," "," ","-","4","5",".","0","0">>,
    <<"0","1","/","1","2","/","2","4"," "," "," "," ","C","h","a","s","e"," ","C","r","e","d","i","t"," ","C","a","r","d"," ","P","a","y","m","e","n","t"," "," "," "," "," "," "," ","-","5","0","0",".","0","0">>,
    <<"0","1","/","1","4","/","2","4"," "," "," "," ","K","r","o","g","e","r"," ","G","r","o","c","e","r","y"," "," "," "," "," "," "," "," "," "," "," "," "," "," "," "," "," "," ","-","1","2","3",".","4","5">>,
    <<"0","1","/","1","6","/","2","4"," "," "," "," ","C","h","e","v","r","o","n"," ","G","a","s"," "," "," "," "," "," "," "," "," "," "," "," "," "," "," "," "," "," "," "," "," "," ","-","5","5",".","0","0">>,
    <<"0","1","/","1","8","/","2","4"," "," "," "," ","N","e","t","f","l","i","x"," ","S","u","b","s","c","r","i","p","t","i","o","n"," "," "," "," "," "," "," "," "," "," "," "," "," ","-","1","5",".","9","9">>,
    <<"0","1","/","1","8","/","2","4"," "," "," "," ","S","p","o","t","i","f","y"," ","P","r","e","m","i","u","m"," "," "," "," "," "," "," "," "," "," "," "," "," "," "," "," "," "," ","-","1","0",".","9","9">>,
    <<"0","1","/","2","0","/","2","4"," "," "," "," ","R","e","s","t","a","u","r","a","n","t"," ","-"," ","I","t","a","l","i","a","n"," ","B","i","s","t","r","o"," "," "," "," "," ","-","8","7",".","5","0">>,
    <<"0","1","/","2","2","/","2","4"," "," "," "," ","P","l","a","n","e","t"," ","F","i","t","n","e","s","s"," ","M","e","m","b","e","r","s","h","i","p"," "," "," "," "," "," "," "," ","-","2","9",".","9","9">>,
    <<"0","1","/","2","4","/","2","4"," "," "," "," ","C","V","S"," ","P","h","a","r","m","a","c","y"," "," "," "," "," "," "," "," "," "," "," "," "," "," "," "," "," "," "," "," "," ","-","3","4",".","5","6">>,
    <<"0","1","/","2","6","/","2","4"," "," "," "," ","U","b","e","r"," ","R","i","d","e"," "," "," "," "," "," "," "," "," "," "," "," "," "," "," "," "," "," "," "," "," "," "," "," ","-","1","8",".","7","5">>,
    <<"0","1","/","2","8","/","2","4"," "," "," "," ","T","r","a","d","e","r"," ","J","o","e","'","s"," "," "," "," "," "," "," "," "," "," "," "," "," "," "," "," "," "," "," "," "," ","-","9","2",".","3","4">>,
    <<"0","1","/","3","0","/","2","4"," "," "," "," ","I","n","t","e","r","n","e","t"," ","S","e","r","v","i","c","e"," ","P","r","o","v","i","d","e","r"," "," "," "," "," "," "," "," ","-","7","9",".","9","9">>,
    <<>>,
    <<"S","U","M","M","A","R","Y">>,
    <<"T","o","t","a","l"," ","D","e","p","o","s","i","t","s",":"," "," "," "," ","$","6",",","2","0","0",".","0","0">>,
    <<"T","o","t","a","l"," ","W","i","t","h","d","r","a","w","a","l","s",":"," ","$","3",",","5","4","8",".","6","5">>,
    <<"N","e","t"," ","C","h","a","n","g","e",":"," "," "," "," "," "," "," "," ","+","2",",","6","5","1",".","3","5">>,
    <<>>
>>

SIMPLE_STATEMENT == join(<<"\n">>, SIMPLE_STATEMENT_LINES)

\* The longest text, in lines, and the longest list of tables
MaxLines == 2
MaxTables == 1
\* The longest list of transactions handed to the categorizer or to the engine
MaxTxns == 2

\* Sequences of at most n members of S
SeqUpTo(S, n) == UNION {[1..k -> S] : k \in 0..n}

Lines == {
    <<"J","a","n"," ","$","8","0","0",".","0","0"," ","$","2","1","0",".","0","0">>,
    <<"R","e","n","t"," "," ","F","o","o","d">>,
    <<"C","o","f","f","e","e"," ","$","4",".","5","0">>,
    <<"T","o","t","a","l"," ","$","9",".","0","0">>,
    <<"h","e","l","l","o",","," ","w","o","r","l","d">>,
    <<" ","$",","," ","$","."," ">>,
    <<"$","0",".","0","0"," ","$","0">>
}

Texts == {join(<<"\n">>, ls) : ls \in SeqUpTo(Lines, MaxLines)} \cup {SIMPLE_STATEMENT}

Grids == {
    \* a header, a data row and a total row
    << <<<<"M","o","n","t","h">>, <<"R","e","n","t">>, <<"F","o","o","d">>>>,
       <<<<"J","a","n">>, <<"$","8","0","0",".","0","0">>, <<"2","1","0">>>>,
       <<<<"T","o","t","a","l">>, <<"$","1",",","0","1","0",".","0","0">>, None>> >>,
    \* null cells, a ragged row, and cells that hold no number
    << <<None, <<"B","i","l","l","s">>>>,
       <<None, <<"a","b","c">>, <<" ","$","5"," ">>>>,
       <<<<>>, None>>,
       <<<<"F","e","e">>, <<",">>, <<"0",".","0","0">>>> >>,
    \* a token float() rejects, in a row longer than the header
    << <<<<"I","t","e","m">>, <<"C","o","s","t">>>>,
       <<<<"F","e","e">>, <<"$"," ",",">>, None>> >>,
    \* a header alone
    << <<<<"M","o","n","t","h">>, <<"R","e","n","t">>>> >>
}

TableLists == SeqUpTo(Grids, MaxTables)

Clocks == {[day |-> 1, step |-> s] : s \in {0, 1}}

RawTransactions == {
    [date |-> [day |-> 5, tick |-> 0], description |-> <<"W","h","o","l","e"," ","F","o","o","d","s"," ","M","a","r","k","e","t">>,
     amount |-> -15678],
    [description |-> <<"S","h","e","l","l"," ","G","a","s"," ","S","t","a","t","i","o","n">>, amount |-> -5200, type |-> "debit"],
    [description |-> <<"S","a","l","a","r","y">>, amount |-> 500000, type |-> "credit"],
    [description |-> <<"S","a","l","a","r","y">>, amount |-> 500000],
    [description |-> <<"S","a","l","a","r","y">>, amount |-> -5200, type |-> "debit"],
    [description |-> <<"M","i","s","c">>, amount |-> -5200],
    [description |-> <<"M","i","s","c">>, amount |-> 500000, type |-> "credit"],
    [description |-> <<"T","a","x"," ","R","e","f","u","n","d">>, amount |-> 5200, type |-> "credit"],
    [description |-> <<"T","a","x"," ","R","e","f","u","n","d">>, amount |-> 500000, type |-> "credit"],
    [description |-> <<"T","a","x"," ","R","e","f","u","n","d">>, amount |-> -5200, type |-> "credit"],
    [description |-> <<"T","a","x"," ","R","e","f","u","n","d">>, amount |-> -5200]
}

RawLists == SeqUpTo(RawTransactions, MaxTxns)

CategorizedTransactions == {
    [description |-> <<"S","a","l","a","r","y">>, amount |-> 120000, type |-> "credit", category |-> "Income"],
    [description |-> <<"D","e","p","o","s","i","t">>, amount |-> 120000, category |-> "Income"],
    [date |-> [day |-> 5, tick |-> 0], description |-> <<"R","e","n","t">>, amount |-> -50000,
     category |-> "Housing"],
    [date |-> [day |-> 5, tick |-> 1], description |-> <<"S","t","a","r","b","u","c","k","s">>, amount |-> -1250,
     category |-> "Food & Dining"],
    [description |-> <<"M","i","s","c">>, amount |-> 2000, type |-> "debit", category |-> "Other"],
    [description |-> <<"M","i","s","c">>, amount |-> 3000, type |-> "credit", category |-> "Other"],
    [date |-> [day |-> 6, tick |-> 0], description |-> <<"C","h","a","s","e"," ","P","a","y","m","e","n","t">>, amount |-> -50000,
     category |-> "Debt Payments"],
    [description |-> <<"R","e","f","u","n","d">>, amount |-> 500000, category |-> "Other"],
    [description |-> <<"V","a","n","g","u","a","r","d">>, amount |-> -10000, category |-> "Savings & Investments"]
}

CategorizedLists == SeqUpTo(CategorizedTransactions, MaxTxns)

Overrides == {NoIncome, Income(0), Income(500000)}

NoMetrics == [transaction_count |-> 0]

\* The longest list handed to identify_recurring_subscriptions
MaxCharges == 4

SubscriptionCharges == {
    [description |-> <<"N","e","t","f","l","i","x">>, amount |-> -1599, category |-> "Subscriptions"],
    [description |-> <<"N","e","t","f","l","i","x">>, amount |-> -2599, category |-> "Subscriptions"],
    [description |-> <<" ","N","E","T","F","L","I","X"," ">>, amount |-> -1799, category |-> "Subscriptions"],
    [description |-> <<"H","u","l","u">>, amount |-> -1800, category |-> "Subscriptions"],
    [description |-> <<"H","u","l","u">>, amount |-> -1800, category |-> "Entertainment"],
    [description |-> <<"t","v">>, amount |-> -999, category |-> "Subscriptions"]
}

ChargeLists == SeqUpTo(SubscriptionCharges, MaxCharges)

\* The longest list handed to validate_transactions
MaxSubmitted == 10

\* The i-th transaction of a ledger without a fault: the descriptions agree on
\* their first 20 characters, the dates and the amounts differ
LedgerEntry(i) ==
    [date |-> PyStr(<<"2","0","2","4","-","0","1","-">> \o (IF i < 10 THEN <<"0">> ELSE <<>>) \o NatToChars(i)),
     description |-> PyStr(<<"M","o","n","t","h","l","y"," ","S","u","b","s","c","r","i","p","t","i","o","n"," ">> \o NatToChars(i)),
     amount |-> PyFloat(-(1000 + 250 * i)),
     category |-> PyStr(<<"S","u","b","s","c","r","i","p","t","i","o","n","s">>)]

Ledger(n) == [i \in 1..n |-> LedgerEntry(i)]

Without(dict, key) == [k \in DOMAIN dict \ {key} |-> dict[k]]
With(dict, key, value) ==
    [k \in DOMAIN dict \cup {key} |-> IF k = key THEN value ELSE dict[k]]

Faults == {"no date", "empty date", "null date",
           "no description", "empty description", "null description",
           "no amount", "text amount", "null amount", "zero amount",
           "no category", "repeat", "near repeat", "same day"}

\* A transaction with a fault; the last three take the date and the amount of
\* the first transaction of the ledger
Faulty(txn, fault) ==
    CASE fault = "no date" -> Without(txn, "date")
      [] fault = "empty date" -> With(txn, "date", PyStr(<<>>))
      [] fault = "null date" -> With(txn, "date", PyNone)
      [] fault = "no description" -> Without(txn, "description")
      [] fault = "empty description" -> With(txn, "description", PyStr(<<>>))
      [] fault = "null description" -> With(txn, "description", PyNone)
      [] fault = "no amount" -> Without(txn, "amount")
      [] fault = "text amount" -> With(txn, "amount", PyStr(<<"1","2",".","5","0">>))
      [] fault = "null amount" -> With(txn, "amount", PyNone)
      [] fault = "zero amount" -> With(txn, "amount", PyFloat(0))
      [] fault = "no category" -> Without(txn, "category")
      [] fault = "repeat" -> LedgerEntry(1)
      [] fault = "near repeat" ->
             With(LedgerEntry(1), "description", PyStr(<<"M","o","n","t","h","l","y"," ","S","u","b","s","c","r","i","p","t","i","o","n"," ","R","e","n","e","w","a","l">>))
      [] fault = "same day" ->
             With(LedgerEntry(1), "description", PyStr(<<"A","n","n","u","a","l"," ","S","u","b","s","c","r","i","p","t","i","o","n"," ","1">>))

Altered(txns, place, fault) ==
    [i \in 1..Len(txns) |-> IF i = place THEN Faulty(txns[i], fault) ELSE txns[i]]

\* The ledgers without a fault, with one fault, and with two repeats of the
\* first transaction
Submissions ==
    {Ledger(n) : n \in 0..MaxSubmitted}
    \cup {Altered(Ledger(n), place, fault) :
             n \in 1..MaxSubmitted, place \in 1..MaxSubmitted, fault \in Faults}
    \cup {Altered(Altered(Ledger(n), n - 1, fault), n, "repeat") :
             n \in 3..MaxSubmitted, fault \in {"repeat", "near repeat"}}

\* The states handed to validate_financial_state: the cash flow is off by
\* nothing, by a cent, or by fifty dollars; a field may be missing, a rate may
\* be out of its range
FinancialStates ==
    {LET full == [total_income |-> income, total_expenses |-> expenses,
                  net_cash_flow |-> income - expenses + off,
                  savings_rate |-> rate.savings,
                  expenses_by_category |-> <<>>, transaction_count |-> 5]
         given == IF missing = "None" THEN full ELSE Without(full, missing)
     IN  IF rate.dti = 0 THEN given ELSE With(given, "debt_to_income_ratio", rate.dti) :
        income \in {0, 500000}, expenses \in {-100, 0, 300000},
        off \in {0, 1, 5000, -5000},
        missing \in {"None", "transaction_count", "net_cash_flow", "total_income"},
        rate \in {[savings |-> 4000, dti |-> 0], [savings |-> 15000, dti |-> 0],
                  [savings |-> 4000, dti |-> 25000]}}

NoValidation == [exc |-> "None", is_valid |-> FALSE, errors |-> <<>>]

----------------------------------------------------------------------------
(* The state machine: a run starts at one of the entry points.             *)

\* AnalysisService.analyze_bank_statement, from the OCR result on
InitPipeline ==
    /\ entry = "analyze_bank_statement"
    /\ pc = "parse"
    /\ text \in Texts
    /\ tables \in TableLists
    /\ clock \in Clocks
    /\ transactions = <<>>
    /\ categorized = <<>>
    /\ monthly_income = NoIncome
    /\ submitted = <<>>
    /\ financial_state = <<>>

\* TransactionCategorizer.categorize_transactions, called on its own
InitCategorizer ==
    /\ entry = "categorize_transactions"
    /\ pc = "categorize"
    /\ text = <<>>
    /\ tables = <<>>
    /\ clock \in {c \in Clocks : c.step = 0}
    /\ transactions \in RawLists
    /\ categorized = <<>>
    /\ monthly_income = NoIncome
    /\ submitted = <<>>
    /\ financial_state = <<>>

\* FinancialMetricsEngine.calculate_all_metrics, called on its own
InitMetrics ==
    /\ entry = "calculate_all_metrics"
    /\ pc = "metrics"
    /\ text = <<>>
    /\ tables = <<>>
    /\ clock \in {c \in Clocks : c.step = 0}
    /\ transactions = <<>>
    /\ categorized \in CategorizedLists
    /\ monthly_income \in Overrides
    /\ submitted = <<>>
    /\ financial_state = <<>>

\* FinancialMetricsEngine.identify_recurring_subscriptions, called on its own
InitSubscriptions ==
    /\ entry = "identify_recurring_subscriptions"
    /\ pc = "subscriptions"
    /\ text = <<>>
    /\ tables = <<>>
    /\ clock \in {c \in Clocks : c.step = 0}
    /\ transactions = <<>>
    /\ categorized \in ChargeLists
    /\ monthly_income = NoIncome
    /\ submitted = <<>>
    /\ financial_state = <<>>

\* ValidationEngine.validate_transactions, called on its own
InitValidateTransactions ==
    /\ entry = "validate_transactions"
    /\ pc = "validate_transactions"
    /\ text = <<>>
    /\ tables = <<>>
    /\ clock \in {c \in Clocks : c.step = 0}
    /\ transactions = <<>>
    /\ categorized = <<>>
    /\ monthly_income = NoIncome
    /\ submitted \in Submissions
    /\ financial_state = <<>>

\* ValidationEngine.validate_financial_state, called on its own
InitValidateState ==
    /\ entry = "validate_financial_state"
    /\ pc = "validate_financial_state"
    /\ text = <<>>
    /\ tables = <<>>
    /\ clock \in {c \in Clocks : c.step = 0}
    /\ transactions = <<>>
    /\ categorized = <<>>
    /\ monthly_income = NoIncome
    /\ submitted = <<>>
    /\ financial_state \in FinancialStates

NoDocument == [filename |-> <<>>]

\* The lists of categorized transactions whose metrics are handed to
\* analyze_finances
WorkflowLists ==
    {<<>>,
     <<[description |-> <<"S","a","l","a","r","y">>, amount |-> 120000, type |-> "credit",
        category |-> "Income"]>>,
     <<[date |-> [day |-> 5, tick |-> 0], description |-> <<"R","e","n","t">>, amount |-> -50000,
        category |-> "Housing"]>>,
     <<[date |-> [day |-> 5, tick |-> 0], description |-> <<"S","t","a","r","b","u","c","k","s">>, amount |-> -1255,
        category |-> "Food & Dining"],
       [date |-> [day |-> 6, tick |-> 0], description |-> <<"N","e","t","f","l","i","x">>, amount |-> -1599,
        category |-> "Subscriptions"]>>,
     <<[description |-> <<"S","a","l","a","r","y">>, amount |-> 120000, type |-> "credit",
        category |-> "Income"],
       [date |-> [day |-> 6, tick |-> 0], description |-> <<"C","h","a","s","e"," ","P","a","y","m","e","n","t">>,
        amount |-> -50000, category |-> "Debt Payments"]>>}

\* The Transaction objects of the dated transactions of a list
TransactionObjects(txns) ==
    LET dated == SelectSeq(txns, LAMBDA t : "date" \in DOMAIN t)
    IN  [i \in 1..Len(dated) |-> txn_kwargs(dated[i])]

\* The uploads: a statement with a text layer, a text layer too short to be
\* used, a scan, and a file that is no PDF; the OCR service answers or not, the
\* API key is configured or not
Documents ==
    {[filename |-> filename, content |-> file.content, text |-> file.text,
      tables |-> file.tables, scan |-> file.scan,
      ocr_service |-> ocr_service, api_key |-> api_key] :
        filename \in {<<"S","t","a","t","e","m","e","n","t",".","P","D","F">>, <<"s","t","a","t","e","m","e","n","t",".","c","s","v">>},
        file \in {[content |-> "text", text |-> SIMPLE_STATEMENT, tables |-> <<>>,
                   scan |-> <<>>],
                  [content |-> "text", text |-> <<"C","o","f","f","e","e"," ","$","4",".","5","0">>, tables |-> <<>>,
                   scan |-> <<"C","o","f","f","e","e"," ","$","4",".","5","O">>],
                  [content |-> "scanned", text |-> <<>>, tables |-> <<>>,
                   scan |-> <<"R","e","n","t"," "," ","F","o","o","d","\n","J","a","n"," ","$","8","0","0",".","0","0"," ","$","2","1","0",".","0","0">>],
                  [content |-> "damaged", text |-> <<>>, tables |-> <<>>,
                   scan |-> <<>>]},
        ocr_service \in BOOLEAN, api_key \in BOOLEAN}

\* A run of the pipeline that has not started
NewRun(txt, clk) ==
    [pc |-> "parse", text |-> txt, tables |-> <<>>, clock |-> clk,
     transactions |-> <<>>, index |-> 0, categorized |-> <<>>, metrics |-> NoMetrics]

\* The statements of the runs that share a service
ConcurrentTexts ==
    {<<"R","e","n","t"," "," ","F","o","o","d","\n","J","a","n"," ","$","8","0","0",".","0","0"," ","$","2","1","0",".","0","0">>, <<"C","o","f","f","e","e"," ","$","4",".","5","0"," ","N","e","t","f","l","i","x"," ","$","1","5",".","9","9">>, <<"h","e","l","l","o",","," ","w","o","r","l","d">>}

\* analyze_finances, called on its own with the metrics of a list
InitAnalyzeFinances ==
    /\ entry = "analyze_finances"
    /\ pc = "analyze_finances"
    /\ text = <<>>
    /\ tables = <<>>
    /\ clock \in {c \in Clocks : c.step = 0}
    /\ categorized \in WorkflowLists
    /\ transactions = TransactionObjects(categorized)
    /\ monthly_income = NoIncome
    /\ submitted = <<>>
    /\ financial_state = <<>>
    /\ metrics = calculate_all_metrics(categorized, NoIncome)
    /\ debt_accounts \in
           {extract_debt_accounts(text, categorized, metrics, up) : up \in Roundings}
    /\ use_parallel \in BOOLEAN
    /\ document = NoDocument
    /\ runs = <<>>

\* The endpoint analyze_statement, from the upload on
InitAnalyzeStatement ==
    /\ entry = "analyze_statement"
    /\ pc = "request"
    /\ text = <<>>
    /\ tables = <<>>
    /\ clock \in {c \in Clocks : c.step = 1}
    /\ transactions = <<>>
    /\ categorized = <<>>
    /\ monthly_income = NoIncome
    /\ submitted = <<>>
    /\ financial_state = <<>>
    /\ metrics = NoMetrics
    /\ debt_accounts = <<>>
    /\ use_parallel = FALSE
    /\ document \in Documents
    /\ runs = <<>>

\* Two runs of the pipeline on different statements, on one service
InitConcurrentRuns ==
    /\ entry = "concurrent_runs"
    /\ pc = "concurrent"
    /\ text = <<>>
    /\ tables = <<>>
    /\ clock \in {c \in Clocks : c.step = 1}
    /\ transactions = <<>>
    /\ categorized = <<>>
    /\ monthly_income = NoIncome
    /\ submitted = <<>>
    /\ financial_state = <<>>
    /\ metrics = NoMetrics
    /\ debt_accounts = <<>>
    /\ use_parallel = FALSE
    /\ document = NoDocument
    /\ runs \in {<<NewRun(pair[1], clock), NewRun(pair[2], clock)>> :
                    pair \in {p \in ConcurrentTexts \X ConcurrentTexts : p[1] # p[2]}}

\* An entry point of the core: no workflow, no upload, no concurrent runs
Core ==
    /\ metrics = NoMetrics
    /\ debt_accounts = <<>>
    /\ use_parallel = FALSE
    /\ document = NoDocument
    /\ runs = <<>>

\* Nothing has run yet
Fresh ==
    /\ raised = FALSE
    /\ subscriptions = <<>>
    /\ validation = NoValidation
    /\ log = <<>>
    /\ failure = "None"
    /\ active = {}
    /\ finished = {}
    /\ response = NoResponse
    /\ frames = <<>>

Init ==
    \/ InitPipeline /\ Core /\ Fresh
    \/ InitCategorizer /\ Core /\ Fresh
    \/ InitMetrics /\ Core /\ Fresh
    \/ InitSubscriptions /\ Core /\ Fresh
    \/ InitValidateTransactions /\ Core /\ Fresh
    \/ InitValidateState /\ Core /\ Fresh
    \/ InitAnalyzeFinances /\ Fresh
    \/ InitAnalyzeStatement /\ Fresh
    \/ InitConcurrentRuns /\ Fresh

\* Step 2 of the pipeline: self._parse_transactions(text, tables)
ParseTransactions ==
    /\ pc = "parse"
    /\ \E result \in {parse_transactions(text, tables, clock)} :
           /\ raised' = result.exc
           /\ transactions' = result.txns
           /\ pc' = IF result.exc THEN "raised" ELSE "categorize"
    /\ log' = Append(log, "parse")
    /\ UNCHANGED <<entry, text, tables, clock, categorized, monthly_income, metrics,
                   subscriptions, submitted, financial_state, validation,
                   debt_accounts, failure, graph_vars, endpoint_vars, concurrent_vars>>

\* Step 3: self.categorizer.categorize_transactions(transactions); the dicts of
\* the list it is given are the dicts it returns, with their category set
CategorizeTransactions ==
    /\ pc = "categorize"
    /\ categorized' = categorize_transactions(transactions)
    /\ transactions' = categorized'
    /\ pc' = "metrics"
    /\ log' = Append(log, "categorize")
    /\ UNCHANGED <<entry, text, tables, clock, raised, monthly_income, metrics,
                   subscriptions, submitted, financial_state, validation,
                   debt_accounts, failure, graph_vars, endpoint_vars, concurrent_vars>>

\* Step 4: self.metrics_engine.calculate_all_metrics(categorized)
CalculateAllMetrics ==
    /\ pc = "metrics"
    /\ metrics' = calculate_all_metrics(categorized, monthly_income)
    /\ pc' = "done"
    /\ log' = Append(log, "metrics")
    /\ UNCHANGED <<entry, text, tables, clock, raised, transactions, categorized,
                   monthly_income, subscriptions, submitted, financial_state,
                   validation, debt_accounts, failure, graph_vars, endpoint_vars,
                   concurrent_vars>>

\* identify_recurring_subscriptions(transactions)
IdentifyRecurringSubscriptions ==
    /\ pc = "subscriptions"
    /\ subscriptions' = identify_recurring_subscriptions(categorized)
    /\ pc' = "reported"
    /\ UNCHANGED <<entry, text, tables, clock, raised, transactions, categorized,
                   monthly_income, metrics, submitted, financial_state, validation,
                   debt_accounts, log, failure, graph_vars, endpoint_vars,
                   concurrent_vars>>

\* validate_transactions(transactions): it returns, or it raises
ValidateTransactions ==
    /\ pc = "validate_transactions"
    /\ \E result \in {validate_transactions(submitted)} :
           /\ raised' = (result.exc # "None")
           /\ validation' = result
           /\ pc' = IF result.exc # "None" THEN "raised" ELSE "validated"
    /\ log' = Append(log, "validate_transactions")
    /\ UNCHANGED <<entry, text, tables, clock, transactions, categorized,
                   monthly_income, metrics, subscriptions, submitted, financial_state,
                   debt_accounts, failure, graph_vars, endpoint_vars, concurrent_vars>>

\* validate_financial_state(state)
ValidateFinancialState ==
    /\ pc = "validate_financial_state"
    /\ validation' = validate_financial_state(financial_state)
    /\ pc' = "validated"
    /\ log' = Append(log, "validate_financial_state")
    /\ UNCHANGED <<entry, text, tables, clock, raised, transactions, categorized,
                   monthly_income, metrics, subscriptions, submitted, financial_state,
                   debt_accounts, failure, graph_vars, endpoint_vars, concurrent_vars>>

\* The entry points whose run goes on after the metrics, to the workflow of the
\* agents: the endpoint, which calls analyze_bank_statement on the upload; the
\* entry analyze_bank_statement covers steps 2 to 4 on every text and table
PipelineEntries == {"analyze_statement"}

\* datetime.now() after the k transactions of the run were stamped
Now(k) == Stamp(clock, k + 1)

\* Step 5: self._extract_debt_accounts(text, categorized, metrics)
ExtractDebtAccounts ==
    /\ entry \in PipelineEntries
    /\ pc = "done"
    /\ \E up \in Roundings :
           debt_accounts' = extract_debt_accounts(text, categorized, metrics, up)
    /\ pc' = "schemas"
    /\ log' = Append(log, "debt_accounts")
    /\ UNCHANGED <<entry, text, tables, clock, raised, transactions, categorized,
                   monthly_income, metrics, subscriptions, submitted, financial_state,
                   validation, failure, graph_vars, endpoint_vars, concurrent_vars>>

\* Step 6, first half: the Transaction and DebtAccount objects are built; from
\* here on transactions and debt_accounts hold the objects handed to
\* analyze_finances
BuildSchemaObjects ==
    /\ pc = "schemas"
    /\ \E result \in {schema_objects(categorized, debt_accounts, Now(Len(categorized)))} :
           /\ failure' = result.exc
           /\ transactions' = result.transactions
           /\ debt_accounts' = result.debt_accounts
           /\ pc' = IF result.exc = "None" THEN "analyze_finances" ELSE "failed"
    /\ log' = Append(log, "schemas")
    /\ UNCHANGED <<entry, text, tables, clock, raised, categorized, monthly_income,
                   metrics, subscriptions, submitted, financial_state, validation,
                   graph_vars, endpoint_vars, concurrent_vars>>

\* analyze_finances, up to graph.invoke: the initial state is created and the
\* graph is built; the first step of the run holds the entry points
AnalyzeFinances ==
    /\ pc = "analyze_finances"
    /\ financial_state' =
           create_initial_state(transactions, debt_accounts, metrics, "analysis_id",
                                Now(Len(categorized) + 1))
    /\ active' = Targets(Graph(use_parallel), {START})
    /\ finished' = {}
    /\ pc' = "graph"
    /\ log' = Append(log, "analyze_finances")
    /\ UNCHANGED <<entry, text, tables, clock, raised, transactions, categorized,
                   monthly_income, metrics, subscriptions, submitted, validation,
                   debt_accounts, failure, use_parallel, endpoint_vars,
                   concurrent_vars>>

\* graph.invoke runs a node of the current step; when the last step is over
\* analyze_finances returns the state, and so does analyze_bank_statement
RunNode(name, outcome) ==
    /\ name \in active
    /\ \E result \in {run_node(name, financial_state, outcome)},
          step \in {NextStep(Graph(use_parallel), active, finished, name)} :
           IF result.exc
           THEN /\ failure' = "Exception"
                /\ pc' = "failed"
                /\ UNCHANGED <<financial_state, active, finished>>
           ELSE /\ financial_state' = result.state
                /\ active' = step.active
                /\ finished' = step.finished
                /\ pc' = IF step.active = {} THEN "returned" ELSE "graph"
                /\ UNCHANGED failure
    /\ log' = Append(log, name)
    /\ UNCHANGED <<entry, text, tables, clock, raised, transactions, categorized,
                   monthly_income, metrics, subscriptions, submitted, validation,
                   debt_accounts, use_parallel, endpoint_vars, concurrent_vars>>

\* A node of an agent runs: the agent returns its output, or it raises
RunAgentNode ==
    \E name \in AgentNodes, outcome \in AgentOutcomes :
        /\ pc = "graph"
        /\ RunNode(name, outcome)

\* The finalize node runs
Finalize ==
    /\ pc = "graph"
    /\ RunNode("finalize", "returns")

\* analyze_statement, up to the call of the service: the name of the file and the
\* API key are checked
AnalyzeStatement ==
    /\ pc = "request"
    /\ IF ~endswith(lower(document.filename), <<".","p","d","f">>)
       THEN /\ response' = HTTPException(400, <<"O","n","l","y"," ","P","D","F"," ","f","i","l","e","s"," ","a","r","e"," ","s","u","p","p","o","r","t","e","d">>)
            /\ pc' = "responded"
       ELSE IF ~document.api_key
       THEN /\ response' = HTTPException(500, <<"O","P","E","N","R","O","U","T","E","R","_","A","P","I","_","K","E","Y"," ","n","o","t"," ","c","o","n","f","i","g","u","r","e","d">>)
            /\ pc' = "responded"
       ELSE /\ pc' = "ocr"
            /\ UNCHANGED response
    /\ UNCHANGED <<entry, text, tables, clock, raised, transactions, categorized,
                   monthly_income, metrics, subscriptions, submitted, financial_state,
                   validation, debt_accounts, log, failure, graph_vars, document,
                   concurrent_vars>>

\* Step 1: self.ocr_engine.extract_from_pdf(tmp_path); an exception leaves
\* analyze_bank_statement
ExtractFromPdf ==
    /\ pc = "ocr"
    /\ \E result \in {extract_from_pdf(document)} :
           /\ failure' = result.exc
           /\ text' = result.text
           /\ tables' = result.tables
           /\ pc' = IF result.exc = "None" THEN "parse" ELSE "failed"
    /\ log' = Append(log, "ocr")
    /\ UNCHANGED <<entry, clock, raised, transactions, categorized, monthly_income,
                   metrics, subscriptions, submitted, financial_state, validation,
                   debt_accounts, graph_vars, endpoint_vars, concurrent_vars>>

\* analyze_statement, after the service returned: the response is formatted
FormatResponse ==
    /\ entry = "analyze_statement"
    /\ pc = "returned"
    /\ response' = format_analysis_response(financial_state)
    /\ pc' = "responded"
    /\ UNCHANGED <<entry, text, tables, clock, raised, transactions, categorized,
                   monthly_income, metrics, subscriptions, submitted, financial_state,
                   validation, debt_accounts, log, failure, graph_vars, document,
                   concurrent_vars>>

\* analyze_statement, after the service raised: except Exception turns the
\* exception into the HTTP error 500
RespondWithError ==
    /\ entry = "analyze_statement"
    /\ pc \in {"raised", "failed"}
    /\ response' = HTTPException(500, <<"A","n","a","l","y","s","i","s"," ","f","a","i","l","e","d">>)
    /\ pc' = "responded"
    /\ UNCHANGED <<entry, text, tables, clock, raised, transactions, categorized,
                   monthly_income, metrics, subscriptions, submitted, financial_state,
                   validation, debt_accounts, log, failure, graph_vars, document,
                   concurrent_vars>>

\* The variables of a single run, which the concurrent runs leave alone
single_run_vars ==
    <<entry, pc, text, tables, clock, raised, transactions, categorized,
      monthly_income, metrics, subscriptions, submitted, financial_state,
      validation, debt_accounts, log, failure, graph_vars, endpoint_vars>>

\* The frame that holds the locals of the call of categorize_transactions made
\* by a run, were the list it builds an attribute of the shared categorizer
CallFrame_on_instance(run) == 1

\* The frame that holds the locals of the call of categorize_transactions made
\* by a run: categorized and category_counts are locals, each call has its own
CallFrame(run) == run

\* A run parses its statement
RunParse ==
    \E r \in DOMAIN runs :
        /\ runs[r].pc = "parse"
        /\ \E result \in {parse_transactions(runs[r].text, runs[r].tables,
                                                runs[r].clock)} :
               runs' = [runs EXCEPT ![r].transactions = result.txns,
                                    ![r].pc = IF result.exc THEN "raised" ELSE "categorize"]
        /\ UNCHANGED <<single_run_vars, frames>>

\* A run calls categorize_transactions: categorized = []
RunCategorizeCall ==
    \E r \in DOMAIN runs :
        /\ runs[r].pc = "categorize"
        /\ frames' = With(frames, CallFrame(r), <<>>)
        /\ runs' = [runs EXCEPT ![r].index = 1, ![r].pc = "loop"]
        /\ UNCHANGED single_run_vars

\* One turn of the loop of categorize_transactions: the transaction gets its
\* category, in place, and is appended to categorized
RunCategorizeLoop ==
    \E r \in DOMAIN runs :
        /\ runs[r].pc = "loop"
        /\ runs[r].index <= Len(runs[r].transactions)
        /\ \E tagged \in {WithCategory(runs[r].transactions[runs[r].index],
                            categorize_transaction(runs[r].transactions[runs[r].index]))} :
               /\ frames' = [frames EXCEPT ![CallFrame(r)] = Append(@, tagged)]
               /\ runs' = [runs EXCEPT ![r].transactions[runs[r].index] = tagged,
                                       ![r].index = @ + 1]
        /\ UNCHANGED single_run_vars

\* categorize_transactions returns categorized
RunCategorizeReturn ==
    \E r \in DOMAIN runs :
        /\ runs[r].pc = "loop"
        /\ runs[r].index > Len(runs[r].transactions)
        /\ runs' = [runs EXCEPT ![r].categorized = frames[CallFrame(r)],
                                ![r].pc = "metrics"]
        /\ UNCHANGED <<single_run_vars, frames>>

\* A run computes its metrics
RunMetrics ==
    \E r \in DOMAIN runs :
        /\ runs[r].pc = "metrics"
        /\ runs' = [runs EXCEPT
                       ![r].metrics = calculate_all_metrics(runs[r].categorized, NoIncome),
                       ![r].pc = "done"]
        /\ UNCHANGED <<single_run_vars, frames>>

Next ==
    \/ ParseTransactions \/ CategorizeTransactions \/ CalculateAllMetrics
    \/ IdentifyRecurringSubscriptions \/ ValidateTransactions \/ ValidateFinancialState
    \/ ExtractDebtAccounts \/ BuildSchemaObjects \/ AnalyzeFinances
    \/ RunAgentNode \/ Finalize
    \/ AnalyzeStatement \/ ExtractFromPdf \/ FormatResponse \/ RespondWithError
    \/ RunParse \/ RunCategorizeCall \/ RunCategorizeLoop \/ RunCategorizeReturn
    \/ RunMetrics

Spec == Init /\ [][Next]_vars

\* graph.invoke keeps running the nodes of the graph until no node is left, and
\* every call of an agent ends, with an output or with an exception
LiveSpec == Spec /\ WF_vars(AnalyzeFinances) /\ WF_vars(RunAgentNode) /\ WF_vars(Finalize)
----------------------------------------------------------------------------
(* The properties of the extractor.                                        *)

Parsed == entry = "analyze_bank_statement" /\ pc = "categorize"

\* A cell of a data row in which _extract_amount finds a token float() rejects
RejectedCell(cell) ==
    /\ Truthy(cell)
    /\ \E i \in 1..Len(cell) : cell[i] \in DigitOrComma
    /\ \A i \in 1..Len(cell) : cell[i] \notin Digits

HasRejectedCell ==
    \E t \in 1..Len(tables) : \E r \in 2..Len(tables[t]) :
        \E i \in 2..Len(tables[t][r]) : RejectedCell(tables[t][r][i])

\* C1: for every text and every list of tables (empty, ragged rows and null
\* cells included) _parse_transactions returns without raising, and the list it
\* returns holds at least one transaction.
C1_ParseNeverFails ==
    (entry = "analyze_bank_statement" /\ pc # "parse")
        => (~raised /\ pc # "raised" /\ Len(transactions) >= 1)

\* C1 witness: a run parsed tables with a null cell and a token float() rejects,
\* found no transaction in them and returned a list that is not empty
C1_Witness ==
    /\ Parsed
    /\ HasRejectedCell
    /\ \E t \in 1..Len(tables) : \E r \in 1..Len(tables[t]) :
           \E i \in 1..Len(tables[t][r]) : tables[t][r][i] = None
    /\ FromTables(tables, clock).txns = <<>>
    /\ Len(transactions) >= 1

\* C2: the result of _parse_transactions is the output of the first strategy, in
\* the order table, tabular text, dollar amounts, that yields a transaction; when
\* the table strategy yields one the result is its output alone.
C2_FirstStrategyWins ==
    Parsed =>
        LET fromTables == FromTables(tables, clock).txns
            tabular == parse_tabular_text(text, clock)
            dollars == parse_dollar_amounts(text, clock)
        IN  /\ fromTables # <<>> => transactions = fromTables
            /\ (fromTables = <<>> /\ tabular # <<>>) => transactions = tabular
            /\ (fromTables = <<>> /\ tabular = <<>> /\ dollars # <<>>)
                   => transactions = dollars

\* C2 witness: the tables gave the result although the text alone would have
\* given transactions under both later strategies
C2_Witness ==
    /\ Parsed
    /\ FromTables(tables, clock).txns # <<>>
    /\ parse_tabular_text(text, clock) # <<>>
    /\ parse_dollar_amounts(text, clock) # <<>>
    /\ transactions = FromTables(tables, clock).txns

NoNumericToken(txt) == \A i \in 1..Len(txt) : txt[i] \notin Digits

\* C3: for a text without a numeric token and an empty list of tables the result
\* is exactly one transaction, "Monthly Expenses (from statement)" of -1000.00.
C3_SentinelOnUnparseable ==
    (Parsed /\ tables = <<>> /\ NoNumericToken(text)) =>
        /\ Len(transactions) = 1
        /\ transactions[1].description = <<"M","o","n","t","h","l","y"," ","E","x","p","e","n","s","e","s"," ","(","f","r","o","m"," ","s","t","a","t","e","m","e","n","t",")">>
        /\ transactions[1].amount = -100000

\* C3 witness: a text of words, commas and dollar signs but no digit was parsed
C3_Witness ==
    /\ Parsed /\ tables = <<>> /\ NoNumericToken(text)
    /\ \E i \in 1..Len(text) : text[i] = "$"
    /\ \E i \in 1..Len(text) : text[i] = ","
    /\ Len(transactions) = 1

----------------------------------------------------------------------------
(* The properties of the metrics record.                                   *)

\* C4: in the record of calculate_all_metrics, fixed_expenses +
\* variable_expenses + discretionary_expenses equals total_expenses within 0.01,
\* for every list of categorized transactions.
C4_ExpenseTypesSumToTotal ==
    pc = "done" =>
        abs(metrics.fixed_expenses + metrics.variable_expenses
                + metrics.discretionary_expenses - metrics.total_expenses) <= 1

\* C5: in the record of calculate_all_metrics, net_cash_flow equals total_income
\* - total_expenses within 0.01, with or without the monthly_income override.
C5_CashFlowConsistent ==
    pc = "done" =>
        abs(metrics.net_cash_flow
                - (metrics.total_income - metrics.total_expenses)) <= 1

\* C6: in the record of calculate_all_metrics, savings_rate is the reported
\* net_cash_flow / the reported total_income x 100 when total_income > 0, and 0
\* when total_income is not positive.
C6_SavingsRateFromReported ==
    pc = "done" =>
        metrics.savings_rate =
            IF metrics.total_income > 0
            THEN Percent(metrics.net_cash_flow, metrics.total_income)
            ELSE 0

\* C7: SIMPLE_STATEMENT with no tables, parsed, categorized and measured, gives
\* total_expenses 3548.65 and total_income 6200.00.
C7_StatementReconciles ==
    (entry = "analyze_bank_statement" /\ pc = "done"
        /\ text = SIMPLE_STATEMENT /\ tables = <<>>) =>
        /\ abs(metrics.total_expenses - 354865) <= 1
        /\ metrics.total_income = 620000

----------------------------------------------------------------------------
(* The properties of the categorizer.                                      *)

\* The transactions the categorizer has given their category
Assigned ==
    IF entry \in {"analyze_bank_statement", "categorize_transactions"} THEN categorized
    ELSE <<>>

TypeOf(txn) == get(txn, "type", "debit")

C9_Examples ==
    \A i \in 1..Len(Assigned) :
        LET txn == Assigned[i]
            debit == TypeOf(txn) = "debit"
        IN  /\ (debit /\ txn.description = <<"W","h","o","l","e"," ","F","o","o","d","s"," ","M","a","r","k","e","t">>)
                   => txn.category = "Food & Dining"
            /\ (debit /\ txn.description = <<"S","h","e","l","l"," ","G","a","s"," ","S","t","a","t","i","o","n">>)
                   => txn.category = "Transportation"
            /\ (TypeOf(txn) = "credit" /\ txn.amount > 0 /\ txn.description = <<"S","a","l","a","r","y">>)
                   => txn.category = "Income"
            /\ (debit /\ \A k \in 1..Len(CATEGORIES) :
                           ~matches_keywords(txn.description, CATEGORIES[k].keywords))
                   => txn.category = "Other"

IncomeKeywords == CATEGORIES[CategoryIndex("Income")].keywords

----------------------------------------------------------------------------
(* The properties of the batch categorizer and of the income total.        *)

\* C11: the type is inferred from the sign of the amount: a transaction without
\* a 'type' whose amount is positive and whose description holds an income
\* keyword is categorized "Income" by categorize_transactions.
C11_TypeInferredFromSign ==
    \A i \in 1..Len(Assigned) :
        (/\ "type" \notin DOMAIN Assigned[i]
         /\ Assigned[i].amount > 0
         /\ matches_keywords(Assigned[i].description, IncomeKeywords))
            => Assigned[i].category = "Income"

\* C12: without an income override total_income is the sum of the magnitudes of
\* the transactions whose category is "Income" or whose amount is positive.
C12_IncomeFromSign ==
    (pc = "done" /\ ~monthly_income.given) =>
        metrics.total_income =
            Total(categorized, LAMBDA txn :
                get(txn, "category", "None") = "Income" \/ get(txn, "amount", 0) > 0)

\* C13: categorize_transactions keeps the length and the order of its input; the
\* i-th transaction it returns is the i-th one it was given, with every field but
\* 'category' as it was and 'category' set to categorize_transaction of it.
C13_OrderPreservingMap ==
    [][CategorizeTransactions =>
        /\ Len(categorized') = Len(transactions)
        /\ \A i \in 1..Len(transactions) :
               /\ DOMAIN categorized'[i] = DOMAIN transactions[i] \cup {"category"}
               /\ \A k \in DOMAIN transactions[i] \ {"category"} :
                      categorized'[i][k] = transactions[i][k]
               /\ categorized'[i].category = categorize_transaction(transactions[i])]_vars

\* C13 witness: a list of two transactions of different descriptions and
\* categories, the first one dated, went through categorize_transactions
C13_Witness ==
    /\ Len(Assigned) = 2
    /\ "date" \in DOMAIN Assigned[1]
    /\ Assigned[1].description # Assigned[2].description
    /\ Assigned[1].category # Assigned[2].category

----------------------------------------------------------------------------
(* The transactions the extractor returns.                                 *)

\* A cell of a data row whose extracted amount is zero
ZeroCell(cell) == extract_amount(cell).kind = "value" /\ extract_amount(cell).value = 0

OnlyZeroDigits(txt) == \A i \in 1..Len(txt) : txt[i] \in Digits => txt[i] = "0"

\* C14: every transaction _parse_transactions returns has an amount below zero,
\* under every strategy and for the summary entry; tokens and cells whose value
\* is zero or that float() rejects give no transaction, so a text that holds no
\* other token, with no table, gives the summary entry alone.
C14_AmountsNegative ==
    Parsed =>
        /\ \A i \in 1..Len(transactions) : transactions[i].amount < 0
        /\ (tables = <<>> /\ OnlyZeroDigits(text)) => transactions = Fallback(clock)

\* C14 witness: a table with a cell of amount zero and a cell float() rejects
\* gave the result, which has a transaction for neither
C14_Witness ==
    /\ Parsed
    /\ HasRejectedCell
    /\ \E t \in 1..Len(tables) : \E r \in 2..Len(tables[t]) :
           /\ ~RowSkipped(tables[t][r])
           /\ \E i \in 2..Len(tables[t][r]) : ZeroCell(RowCells(tables[t][r])[i])
    /\ transactions # <<>>
    /\ transactions = FromTables(tables, clock).txns

\* C15: every transaction _parse_transactions returns has a description that is
\* not empty, also for a table row whose first cell is empty or null under a
\* column without a header cell.
C15_DescriptionsNonEmpty ==
    Parsed => \A i \in 1..Len(transactions) : transactions[i].description # <<>>

----------------------------------------------------------------------------
(* The metrics of the engine.                                              *)

\* The days on which the expense transactions of a list fall
ExpenseDays(txns) == {DateOf(txns[i]).day : i \in {j \in 1..Len(txns) : IsExpense(txns[j])}}

\* C16: spending_volatility is 0.0 whenever the expense transactions fall on
\* fewer than two distinct days, the expenses being grouped by day: transactions
\* stamped at different times of one day form one group.
C16_VolatilityByDay ==
    (pc = "done" /\ Cardinality(ExpenseDays(categorized)) < 2)
        => metrics.spending_volatility = 0

\* The place in the input of the first expense transaction of a category
FirstExpenseOf(txns, category) ==
    CHOOSE i \in 1..Len(txns) :
        /\ InBreakdown(txns[i]) /\ get(txns[i], "category", "Other") = category
        /\ \A j \in 1..(i - 1) :
               ~(InBreakdown(txns[j]) /\ get(txns[j], "category", "Other") = category)

\* C18: expenses_by_category holds, once each, the categories of the expense
\* transactions outside "Income", each with the sum of the magnitudes of its
\* expense transactions, in the descending order of the sums; categories of
\* equal sums stand in the order in which the input first shows them.
C18_BreakdownSorted ==
    pc = "done" =>
        LET breakdown == metrics.expenses_by_category
            places == 1..Len(breakdown)
        IN  /\ {breakdown[k].category : k \in places}
                   = {get(categorized[i], "category", "Other") :
                          i \in {j \in 1..Len(categorized) : InBreakdown(categorized[j])}}
            /\ \A k, m \in places :
                   breakdown[k].category = breakdown[m].category => k = m
            /\ \A k \in places :
                   breakdown[k].amount =
                       Total(categorized, LAMBDA txn :
                           /\ IsExpense(txn)
                           /\ get(txn, "category", "Other") = breakdown[k].category)
            /\ \A k, m \in places :
                   k < m =>
                       \/ breakdown[k].amount > breakdown[m].amount
                       \/ /\ breakdown[k].amount = breakdown[m].amount
                          /\ FirstExpenseOf(categorized, breakdown[k].category)
                                 < FirstExpenseOf(categorized, breakdown[m].category)

\* C18 witness: the breakdown of a list holds two categories of equal sums
C18_Witness ==
    /\ pc = "done"
    /\ Len(metrics.expenses_by_category) = 2
    /\ metrics.expenses_by_category[1].amount = metrics.expenses_by_category[2].amount
    /\ metrics.expenses_by_category[1].amount > 0

----------------------------------------------------------------------------
(* The recurring subscriptions.                                            *)

Reported == entry = "identify_recurring_subscriptions" /\ pc = "reported"

\* The keys of the groups of the list, and the amounts of a group
GroupKeys ==
    {SubscriptionKey(categorized[i]) :
        i \in {j \in 1..Len(categorized) : IsSubscription(categorized[j])}}

\* The largest distance, times the size of the group, between an amount of the
\* group and the mean of the group, in cents
Spread(key) ==
    LET amounts == GroupAmounts(categorized, key)
        away == {abs(Len(amounts) * amounts[i] - Sum(amounts)) : i \in 1..Len(amounts)}
    IN  CHOOSE d \in away : \A other \in away : other <= d

Occurrences(key) == Len(GroupAmounts(categorized, key))

\* The result holds one entry for each key of the set, with the size of the
\* group as its frequency, in the descending order of the amounts
ReportsExactly(keys) ==
    /\ {subscriptions[k].description : k \in 1..Len(subscriptions)} = keys
    /\ Len(subscriptions) = Cardinality(keys)
    /\ \A k \in 1..Len(subscriptions) :
           subscriptions[k].frequency = Occurrences(subscriptions[k].description)
    /\ \A k, m \in 1..Len(subscriptions) :
           k < m => subscriptions[k].amount >= subscriptions[m].amount

----------------------------------------------------------------------------
(* The validation engine.                                                  *)

\* C19: whenever net_cash_flow is more than 0.01 away from total_income minus
\* total_expenses, validate_financial_state returns is_valid = False with a
\* cash flow mismatch among its errors, for every income and every amount of
\* expenses, zero included.
C19_MismatchRejected ==
    (entry = "validate_financial_state" /\ pc = "validated") =>
        LET stated == get(financial_state, "net_cash_flow", 0)
            calculated == get(financial_state, "total_income", 0)
                              - get(financial_state, "total_expenses", 0)
        IN  abs(stated - calculated) > 1 =>
                /\ ~validation.is_valid
                /\ \E k \in 1..Len(validation.errors) :
                       validation.errors[k].error = "Cash flow mismatch"

HasText(txn, key) ==
    key \in DOMAIN txn /\ txn[key].type = "str" /\ txn[key].str # <<>>

\* A transaction with a date, a description, an amount that is a number, and a
\* category
Complete(txn) ==
    /\ HasText(txn, "date")
    /\ HasText(txn, "description")
    /\ "amount" \in DOMAIN txn /\ txn.amount.type = "float"
    /\ "category" \in DOMAIN txn

\* The transactions of a list of complete transactions that repeat the date, the
\* amount and the first 20 characters of the description of an earlier one
Repeats(txns) ==
    {i \in 1..Len(txns) :
        \E j \in 1..(i - 1) :
            /\ txns[j].date = txns[i].date
            /\ txns[j].amount = txns[i].amount
            /\ Truncate(txns[j].description.str, 20) = Truncate(txns[i].description.str, 20)}

\* C20: validate_transactions returns is_valid = True exactly when the list has
\* five transactions at least, every transaction has a date and a description
\* that are not empty, an amount that is a number and a category, and at most a
\* tenth of the transactions repeat an earlier (date, amount, first 20
\* characters of the description); is_valid is True exactly when the list of
\* errors it returns is empty.
C20_ValidExactlyWhen ==
    (entry = "validate_transactions" /\ pc # "validate_transactions") =>
        /\ ~raised
        /\ validation.is_valid =
               (/\ Len(submitted) >= 5
                /\ \A i \in 1..Len(submitted) : Complete(submitted[i])
                /\ 10 * Cardinality(Repeats(submitted)) <= Len(submitted))
        /\ validation.is_valid = (validation.errors = <<>>)

----------------------------------------------------------------------------
(* The failures of validate_transactions.                                  *)

\* The error validate_transactions reports for the transaction at a place
Reports(result, place, error) ==
    \E k \in 1..Len(result.errors) :
        result.errors[k] = [transaction |-> place - 1, error |-> error]

\* C21: validate_transactions never raises and leaves its input as it was: for
\* every list, transactions with an amount that is None or a string or with a
\* description that is None included, it returns (is_valid, errors), and the
\* errors hold a string for each such defect.
C21_NeverRaises ==
    [][ValidateTransactions =>
        /\ ~raised' /\ validation'.exc = "None"
        /\ submitted' = submitted
        /\ \A i \in 1..Len(submitted) :
               /\ ("amount" \in DOMAIN submitted[i]
                      /\ submitted[i].amount.type # "float")
                      => Reports(validation', i, "Invalid amount type")
               /\ ("description" \in DOMAIN submitted[i]
                      /\ submitted[i].description.type = "None")
                      => Reports(validation', i, "Missing description")]_vars

----------------------------------------------------------------------------
(* The pipeline of analyze_bank_statement and the endpoint.                *)

\* The stages of the pipeline a run has been through, in the order it ran them
Stages(steps) ==
    SelectSeq(steps, LAMBDA s : s \in {"parse", "categorize", "metrics",
                                      "validate_transactions",
                                      "validate_financial_state"})

Validations == {"validate_transactions", "validate_financial_state"}

\* C22: in every run of analyze_bank_statement, when the agents are invoked the
\* stages have run in the order extraction, categorization, metrics,
\* validation, each once, and the validation result has been computed
C22_StagesInOrder ==
    (entry \in PipelineEntries /\ pc = "graph") =>
        LET ran == Stages(log)
        IN  /\ Len(ran) >= 4
            /\ SubSeq(ran, 1, 3) = <<"parse", "categorize", "metrics">>
            /\ \A k \in 4..Len(ran) :
                   /\ ran[k] \in Validations
                   /\ \A j \in 4..Len(ran) : ran[j] = ran[k] => j = k
            /\ validation # NoValidation

\* The request reached the service: the file is named as a PDF and the API key
\* is configured
Accepted(doc) == endswith(lower(doc.filename), <<".","p","d","f">>) /\ doc.api_key

\* C23: for every document the service is called on, the endpoint answers with
\* a structured result that carries the errors collected, never with an error:
\* no exception of the OCR, the parsing, the schema objects or the workflow ends
\* the request
C23_AlwaysAResult ==
    (entry = "analyze_statement" /\ pc = "responded" /\ Accepted(document)) =>
        /\ response.status_code = 200
        /\ "errors" \in DOMAIN response
        /\ failure = "None"
        /\ ~raised

\* C24: the state create_initial_state builds from the metrics of the engine
\* holds the net_cash_flow of the engine as its net income, the
\* expenses_by_category of the engine as its breakdown by category and the
\* spending_volatility of the engine as its volatility
C24_MetricsReachAgents ==
    (entry \in PipelineEntries \cup {"analyze_finances"} /\ pc = "graph") =>
        /\ financial_state.net_income = metrics.net_cash_flow
        /\ financial_state.expense_by_category = metrics.expenses_by_category
        /\ financial_state.expense_volatility = metrics.spending_volatility

----------------------------------------------------------------------------
(* Runs that share a service.                                              *)

\* What a run returns when it runs alone: the transactions with their
\* categories, and their metrics
Alone(run) ==
    LET parsed == parse_transactions(run.text, run.tables, run.clock)
        tagged == categorize_transactions(parsed.txns)
    IN  [transactions |-> tagged,
         metrics |-> calculate_all_metrics(tagged, NoIncome)]

\* C25: two runs of extraction, categorization and metrics on different
\* statements, interleaved in any order, each produce the transactions, the
\* categories and the metrics they produce alone
C25_RunsIndependent ==
    \A r \in DOMAIN runs :
        /\ runs[r].pc \in {"metrics", "done"} =>
               /\ runs[r].transactions = Alone(runs[r]).transactions
               /\ runs[r].categorized = Alone(runs[r]).transactions
        /\ runs[r].pc = "done" => runs[r].metrics = Alone(runs[r]).metrics

\* Both runs are over, each with transactions of its own
C25_Witness ==
    /\ entry = "concurrent_runs"
    /\ \A r \in DOMAIN runs : runs[r].pc = "done" /\ runs[r].categorized # <<>>
    /\ runs[1].categorized # runs[2].categorized

----------------------------------------------------------------------------
(* The workflow of the agents.                                             *)

\* The field of the state each agent node writes
NodeField ==
    [debt_analyzer |-> "debt_analysis", savings_strategy |-> "savings_strategy",
     budget_optimizer |-> "budget_recommendations", risk_scorer |-> "risk_score"]

\* The nodes that have run, in the order they ran
NodesRun == SelectSeq(log, LAMBDA s : s \in AgentNodes \cup {"finalize"})

\* The fields of the agents that hold None
Unset(state) == {name \in AgentNodes : state[NodeField[name]] = PyNone}

Places(name) == {k \in 1..Len(NodesRun) : NodesRun[k] = name}

----------------------------------------------------------------------------
(* The estimated debt account and the income of a statement.               *)

\* The dicts _extract_debt_accounts returned are in debt_accounts
Extracted == pc = "schemas" \/ (entry = "analyze_finances" /\ pc = "analyze_finances")

\* C29: _extract_debt_accounts returns one debt account; when the total of the
\* expenses is positive its current_balance is 30 percent of it, to the cent;
\* in every case current_balance >= 0, credit_limit >= current_balance and
\* 0 <= apr <= 100, and DebtAccount accepts it
C29_OneValidDebtAccount ==
    Extracted =>
        /\ Len(debt_accounts) = 1
        /\ metrics.total_expenses > 0 =>
               /\ 100 * debt_accounts[1].current_balance - 30 * metrics.total_expenses <= 50
               /\ 30 * metrics.total_expenses - 100 * debt_accounts[1].current_balance <= 50
        /\ debt_accounts[1].current_balance >= 0
        /\ debt_accounts[1].credit_limit >= debt_accounts[1].current_balance
        /\ 0 <= debt_accounts[1].apr /\ debt_accounts[1].apr <= 10000
        /\ DebtAccount(debt_accounts[1]).ok

\* An account estimated from expenses whose 30 percent is no whole cent
C29_Witness ==
    /\ pc = "schemas"
    /\ debt_accounts[1].account_id = "cc_estimated"
    /\ debt_accounts[1].current_balance > 0
    /\ (30 * metrics.total_expenses) % 100 # 0

====
